---- MODULE Spec2Model ----

(***************************************************************************)
(* magnet2torrent: the orchestrator Magnet2Torrent.retrieve_torrent, the   *)
(* tracker and peer tasks it spawns, the subsidiary futures they put in    *)
(* task_registry, and the DHT find_peers stream, as one state machine.     *)
(* One action is one run of a coroutine or callback between two awaits.    *)
(***************************************************************************)
EXTENDS Integers, Sequences, FiniteSets, TLC

(***************************** bounds **************************************)
\* number of distinct peer addresses (IPv4, port) the swarm can report
NumAddrs == 2

\* number of peer sources of a call: its trackers, and the DHT if there is one
MaxSources == 2

\* number of peer entries the trackers and the DHT report during one call, over
\* all their replies
MaxReports == 2

\* number of byte values of the metadata alphabet
NumBytes == 2

\* number of metadata messages the remote peer can put in one TCP segment
MaxMsgs == 2

Addrs == 1..NumAddrs
Bytes == 1..NumBytes

RECURSIVE SeqsUpTo(_, _)

\* all sequences over S of length at most n
SeqsUpTo(S, n) ==
    IF n = 0 THEN {<<>>}
    ELSE LET shorter == SeqsUpTo(S, n - 1)
         IN  shorter \cup {Append(s, x) : s \in {t \in shorter : Len(t) = n - 1}, x \in S}

\* Peer addresses are interchangeable, so the addresses are named in the order the
\* sources first report them: with the addresses 1..k reported so far, a peer list
\* names a new address as k + 1.
Max(a, b) == IF a > b THEN a ELSE b
Min(a, b) == IF a < b THEN a ELSE b

RECURSIVE Seen(_, _)

\* the number of addresses reported once the list ps is, after k
Seen(k, ps) == IF ps = <<>> THEN k ELSE Seen(Max(k, Head(ps)), Tail(ps))

RECURSIVE PeerLists(_, _)

\* the peer lists of at most n entries, after k addresses
PeerLists(k, n) ==
    IF n <= 0 THEN {<<>>}
    ELSE {<<>>} \cup UNION {{<<a>> \o rest : rest \in PeerLists(Max(k, a), n - 1)} :
                            a \in 1..Min(k + 1, NumAddrs)}

RECURSIVE BatchSeqs(_, _)

\* the sequences of non-empty peer lists with at most n entries in all
BatchSeqs(k, n) ==
    {<<>>} \cup UNION {{<<l>> \o rest : rest \in BatchSeqs(Seen(k, l), n - Len(l))} :
                        l \in PeerLists(k, n) \ {<<>>}}

RECURSIVE Flatten(_)
Flatten(ls) == IF ls = <<>> THEN <<>> ELSE Head(ls) \o Flatten(Tail(ls))

(***************************** data ****************************************)
RECURSIVE Sha1(_)

\* hashlib.sha1(torrent_data).digest(): an injective digest of the byte string
Sha1(s) ==
    IF s = <<>> THEN 0
    ELSE Sha1(SubSeq(s, 1, Len(s) - 1)) * (NumBytes + 1) + s[Len(s)]

\* the bencoded info dictionary the magnet link names, and its info-hash
GoodInfo == <<1, 2>>

\* bytes of the same length with another digest
BadInfo == <<2, 1>>
InfoHash == Sha1(GoodInfo)

\* schemes a tracker URL of the magnet link can have; "udp" carries host:port,
\* "udpnoport" is a udp URL whose netloc has no ":port"
Schemes == {"http", "udp", "udpnoport", "other"}

\* the value None, and the value of a task that ended with an exception
None == [none |-> TRUE, exc |-> "", peers |-> <<>>, data |-> <<>>, next |-> FALSE]
Raised(e) == [none |-> TRUE, exc |-> e, peers |-> <<>>, data |-> <<>>, next |-> FALSE]

\* (tracker, {"seeders": .., "leechers": .., "peers": peers}) and, with next, the
\* three-tuple of the DHT stream
TrackerResult(peers, next) ==
    [none |-> FALSE, exc |-> "", peers |-> peers, data |-> <<>>, next |-> next]

\* the bytes a peer task returns
BytesResult(data) ==
    [none |-> FALSE, exc |-> "", peers |-> <<>>, data |-> data, next |-> FALSE]

VARIABLES
    cfg,            \* constructor arguments of Magnet2Torrent and the parsed magnet link
    cache,          \* the file at torrent_cache_path: [exists, data]
    pc,             \* position of retrieve_torrent
    outcome,        \* what retrieve_torrent returned or raised
    tasks,          \* retrieve_torrent's local `tasks`: ids of the tasks it awaits
    task,           \* the tasks spawned for the call, by id: each coroutine's state
    task_registry,  \* retrieve_torrent's task_registry: a set of futures
    handled_peers,  \* retrieve_torrent's handled_peers
    dht,            \* state shared by Server.find_peers, found_peers and the spider
    hist,           \* history of the call, for the properties
    crawl,          \* the SpiderCrawl object of a lookup followed call by call
    protocol,       \* the KRPCProtocol object: its calls, futures and timers
    tracker         \* one tracker task followed datagram by datagram

vars == <<cfg, cache, pc, outcome, tasks, task, task_registry, handled_peers, dht, hist,
          crawl, protocol, tracker>>

(******************** peer.py: BittorrentTCPProtocol ***********************)
\* largest metadata_size a peer announces, and longest payload of one piece message
MaxSize == 2
MaxPieceLen == 1

\* one length-prefixed message of the peer wire, as the protocol parses it.
\*   t = "handshake": the 68-byte handshake; ext = bit 20 of the reserved bytes set,
\*       proto = the protocol string is right, ih = the info-hash is ours
\*   t = "ext0":  action 20, extended id 0; ut = m has ut_metadata,
\*       size = metadata_size (-1: absent)
\*   t = "meta":  action 20, extended id EXTENDED_ID_METADATA; msg_type, piece, data
\*   t = "other": any other action
\*   big: the length prefix exceeds MAX_PACKET_SIZE; "partial" = the buffer does not
\*       hold the whole frame yet, "whole" = it does
Frame(t, ext, proto, ih, ut, size, msg_type, piece, data, big) ==
    [t |-> t, ext |-> ext, proto |-> proto, ih |-> ih, ut |-> ut, size |-> size,
     msg_type |-> msg_type, piece |-> piece, data |-> data, big |-> big]

Handshakes ==
    {Frame("handshake", e, p, i, FALSE, -1, 0, 0, <<>>, "no") :
        e \in BOOLEAN, p \in BOOLEAN, i \in BOOLEAN}
ExtHandshakes ==
    {Frame("ext0", TRUE, TRUE, TRUE, u, s, 0, 0, <<>>, "no") :
        u \in BOOLEAN, s \in {-1} \cup 1..MaxSize}
MetaMessages ==
    {Frame("meta", TRUE, TRUE, TRUE, TRUE, -1, 1, i, d, "no") :
        i \in 0..(MaxSize - 1), d \in SeqsUpTo(Bytes, MaxPieceLen) \ {<<>>}}
        \cup {Frame("meta", TRUE, TRUE, TRUE, TRUE, -1, 2, 0, <<>>, "no")}
BigFrames ==
    {Frame("other", TRUE, TRUE, TRUE, TRUE, -1, 0, 0, <<>>, b) : b \in {"partial", "whole"}}
Frames == Handshakes \cup ExtHandshakes \cup MetaMessages \cup BigFrames

\* BittorrentTCPProtocol.__init__; wrong_infohash records the warning "Got wrong
\* infohash" of verify_and_set_result; ut_metadata is whether the attribute of
\* that name has been set. The last seven fields record what the object did:
\* resolved, the calls of cb.set_result;
\* requested, the pieces passed to request_metadata_piece, each with whether the
\* transport was closed already; replies, the msg_type 1 messages handled;
\* hashed, the local torrent_data of
\* the verify_and_set_result calls that hashed; reason, the argument of the first
\* kill; late, the frames handed to handle_action after the transport was
\* closed; raised, an exception left data_received
NewProtocol ==
    [state |-> "handshake", expected_torrent_size |-> -1,
     torrent_data |-> <<>>, closed |-> FALSE, cb |-> "pending", cbval |-> <<>>,
     wrong_infohash |-> FALSE, ut_metadata |-> FALSE,
     resolved |-> 0, requested |-> <<>>, replies |-> 0, hashed |-> <<>>, reason |-> "", late |-> 0, raised |-> FALSE]

\* cb.done()
CbDone(p) == p.cb # "pending"

\* faulty variant: cb is left pending
kill_leaves_cb(p, reason) ==
    [p EXCEPT !.closed = TRUE, !.reason = IF @ = "" THEN reason ELSE @]
\* cb.set_result(None) unless cb is done
set_none(p) ==
    IF CbDone(p) THEN p ELSE [p EXCEPT !.cb = "none", !.resolved = @ + 1]
\* faulty variant: the transport is left open
kill_leaves_transport(p, reason) ==
    [set_none(p) EXCEPT !.reason = IF @ = "" THEN reason ELSE @]
\* kill: transport.close(); if not self.cb.done(): self.cb.set_result(None)
kill(p, reason) ==
    [set_none(p) EXCEPT !.closed = TRUE, !.reason = IF @ = "" THEN reason ELSE @]

\* connection_lost: if not self.cb.done(): self.cb.set_result(None)
connection_lost(p) == [set_none(p) EXCEPT !.closed = TRUE]

\* an exception escaping data_received: the event loop closes the transport and
\* calls connection_lost
FatalError(p) == [connection_lost(p) EXCEPT !.raised = TRUE]
\* lines 100-103 and 115-118: request_metadata_piece writes the request for the
\* piece to the transport
request_metadata_piece(p, piece) ==
    [p EXCEPT !.requested = Append(@, [piece |-> piece, closed |-> p.closed])]

RECURSIVE Concat(_)

\* torrent_data = b""; for v in self.torrent_data.values(): torrent_data += v
Concat(td) == IF td = <<>> THEN <<>> ELSE Head(td).data \o Concat(Tail(td))

RECURSIVE TotalLen(_)

\* sum(len(v) for v in self.torrent_data.values())
TotalLen(td) == IF td = <<>> THEN 0 ELSE Len(Head(td).data) + TotalLen(Tail(td))

\* self.torrent_data[piece] = payload_data on a dict: a new key goes last, a key
\* already present keeps its place and takes the new value
DictSet(td, piece, data) ==
    IF \E i \in 1..Len(td) : td[i].piece = piece
    THEN [i \in 1..Len(td) |->
            IF td[i].piece = piece THEN [piece |-> piece, data |-> data] ELSE td[i]]
    ELSE Append(td, [piece |-> piece, data |-> data])

\* faulty variant: the digest is not compared
HashUnchecked(data, infohash) == TRUE

\* the comparison of verify_and_set_result: infohash == self.infohash
HashMatches(data, infohash) == Sha1(data) = infohash

\* faulty variant: the result is set whatever cb holds
verify_and_set_result_unguarded(p, infohash) ==
    IF HashMatches(Concat(p.torrent_data), infohash)
    THEN [p EXCEPT !.cb = "bytes", !.cbval = Concat(p.torrent_data),
                   !.resolved = @ + 1]
    ELSE [p EXCEPT !.wrong_infohash = TRUE]
\* verify_and_set_result
verify_and_set_result(p, infohash) ==
    IF CbDone(p) THEN p
    ELSE LET torrent_data == Concat(p.torrent_data)
         IN  IF HashMatches(torrent_data, infohash)
             THEN [p EXCEPT !.cb = "bytes", !.cbval = torrent_data, !.resolved = @ + 1,
                            !.hashed = Append(@, torrent_data)]
             ELSE [p EXCEPT !.wrong_infohash = TRUE, !.hashed = Append(@, torrent_data)]

\* handle_extended_action; the protocol after the message
handle_extended_action(p, f, infohash) ==
    IF f.t = "ext0" THEN
        IF ~f.ut THEN kill(p, "Does not support actual torrent exchange")
        ELSE request_metadata_piece([p EXCEPT !.expected_torrent_size = f.size,
                                              !.ut_metadata = TRUE], 0)
    ELSE IF f.t = "meta" THEN
        IF f.msg_type = 2 THEN kill(p, "Our request for data was denied, bailing")
        ELSE IF f.msg_type = 1 THEN
            LET q == [p EXCEPT !.torrent_data = DictSet(@, f.piece, f.data),
                               !.replies = @ + 1]
            IN  \* sum(...) < None raises TypeError
                IF q.expected_torrent_size = -1 THEN FatalError(q)
                ELSE IF TotalLen(q.torrent_data) < q.expected_torrent_size
                THEN request_metadata_piece(q, f.piece + 1)
                ELSE kill(verify_and_set_result(q, infohash), "Finished")
        ELSE p
    ELSE p

\* handle_action: only action 20 is handled
handle_action(p, f, infohash) ==
    IF f.t \in {"ext0", "meta"} THEN handle_extended_action(p, f, infohash) ELSE p

RECURSIVE data_received(_, _, _)

\* data_received with the buffer holding the frames fs: the while loop. It is
\* left by the returns after a kill in the handshake state, by the return on a
\* frame that is not whole, and by an exception; a kill of handle_action or of
\* the length check does not leave it.
data_received(p, fs, infohash) ==
    IF fs = <<>> \/ p.raised THEN p
    ELSE LET f == Head(fs) IN
        IF p.state = "handshake" THEN
            IF f.t # "handshake" THEN kill(p, "Invalid handshake")
            ELSE IF ~f.ext THEN kill(p, "Peer does not support extended metadata")
            ELSE IF ~f.proto THEN kill(p, "Invalid handshake")
            ELSE IF ~f.ih THEN kill(p, "Invalid infohash")
            ELSE data_received([p EXCEPT !.state = "normal"], Tail(fs), infohash)
        ELSE IF f.t = "handshake" THEN
            \* 68 bytes of handshake read as a frame: an action that is not 20
            data_received(p, Tail(fs), infohash)
        ELSE
            LET q == IF f.big # "no" THEN kill(p, "Packet size too big") ELSE p
                r == IF q.closed THEN [q EXCEPT !.late = @ + 1] ELSE q
            IN  IF f.big = "partial" THEN q
                ELSE data_received(handle_action(r, f, infohash), Tail(fs), infohash)

(******************** magnet2torrent.py: Magnet2Torrent ********************)
\* a tracker URL: its scheme and which host it names
Url(scheme, host) == [scheme |-> scheme, host |-> host]

\* settings.DEFAULT_TRACKERS: all of them udp URLs with a port
DEFAULT_TRACKERS == <<Url("udp", 0)>>

\* the magnet links: tr= lists of at most MaxSources URLs, the i-th naming host i
MagnetTrackers ==
    {[i \in 1..Len(ss) |-> Url(ss[i], i)] : ss \in SeqsUpTo(Schemes, MaxSources)}

\* dn= values: a name with the characters the name property strips
DisplayNames == {<<".", "h", "/", "i", ":", ".">>}

RECURSIVE StripLeft(_)
StripLeft(s) == IF s # <<>> /\ Head(s) = "." THEN StripLeft(Tail(s)) ELSE s
RECURSIVE StripRight(_)
StripRight(s) ==
    IF s # <<>> /\ s[Len(s)] = "." THEN StripRight(SubSeq(s, 1, Len(s) - 1)) ELSE s

\* the name property: _parse_url()[2].strip(".") with "/", "\" and ":" removed;
\* without dn the name is the hex of the info-hash
name(c) ==
    IF c.dn = <<>> THEN <<"hexlify(infohash)">>
    ELSE SelectSeq(StripRight(StripLeft(c.dn)), LAMBDA ch : ch \notin {"/", "\\", ":"})

\* the tracker list of create_torrent and of retrieve_torrent
trackers(c) ==
    IF c.use_additional_trackers THEN c.trackers \o DEFAULT_TRACKERS ELSE c.trackers

NoTorrent == [filename |-> <<>>, info |-> <<>>, has_list |-> FALSE,
              announce_list |-> <<>>, has_announce |-> FALSE, announce |-> Url("", 0)]

\* create_torrent: (f"{self.name}.torrent", bencode(torrent)); info is the byte
\* string handed to bdecode
create_torrent(c, torrent_data) ==
    LET list == IF c.use_trackers THEN trackers(c) ELSE <<>>
    IN  [filename |-> Append(name(c), ".torrent"),
         info |-> torrent_data,
         has_list |-> c.use_trackers,
         announce_list |-> list,
         has_announce |-> c.use_trackers /\ list # <<>>,
         announce |-> IF c.use_trackers /\ list # <<>> THEN list[1] ELSE Url("", 0)]

\* a task is named <<kind, key, n>>: kind is the coroutine it runs; key the
\* tracker's place in the list or the peer address; n tells apart the tasks of a
\* kind and key: the n-th task for a peer address, the n-th get of the DHT stream
UdpId(i) == <<"udp", i, 0>>
DhtId(n) == <<"dht", 0, n>>
PeerId(addr, n) == <<"peer", addr, n>>
NoId == <<"none", 0, 0>>

\* the state of a task: task_type is the tag retrieve_torrent gives it
NewTask(kind, key, pos) ==
    [kind |-> kind, task_type |-> IF kind = "peer" THEN "peer" ELSE "tracker",
     key |-> key, pos |-> pos, cancel |-> FALSE, res |-> None,
     conn |-> "none", proto |-> NewProtocol]

Done(t) == t.pos = "done"

\* the futures a child puts in task_registry: <<task id, slot>>
ConnOf(id) == <<id, "conn">>
CbOf(id) == <<id, "cb">>
CancelTask == <<DhtId(0), "cancel_task">>

\* future.done() of a member of task_registry. A task that has finished and been
\* handled is no longer in the table; it left none of its futures pending.
FutureDone(tk, d, f) ==
    IF f = CancelTask THEN d.cancel_task # "pending"
    ELSE IF f[1] \notin DOMAIN tk THEN TRUE
    ELSE IF f[2] = "conn" THEN tk[f[1]].conn # "pending"
    ELSE tk[f[1]].proto.cb # "pending"

\* Server.find_peers without a spider; terminals counts the batches without a
\* continuation that the invocation has emitted
NoDht == [spider_queue |-> <<>>, result_queue |-> <<>>, crawl_finished |-> FALSE,
          cancel_crawl |-> FALSE, cancel_task |-> "none", found_peers |-> "none",
          spider |-> "none", terminals |-> 0]

\* a node is named by its XOR distance to the target of the lookup; a lookup
\* makes one call per node at most, so its transaction ids are 1..NumNodes
NumNodes == 3
NodeIds == 1..NumNodes
TxIds == 1..NumNodes

\* no SpiderCrawl is followed
NoCrawl == [kind |-> "none", ksize |-> 0, alpha |-> 0, nearest |-> {}, contacted |-> {},
            last_ids_crawled |-> {}, calls |-> << >>, returned |-> {}, pos |-> "none"]

\* node ids and info-hashes as they come off the wire, IdBits wide instead of
\* 160 bits, and one longer than that: long_id ranges over 0..MAX_ID
IdBits == 2
MAX_ID == 2 ^ IdBits
Ids == 0..MAX_ID

\* no token (None); the handler of a query returned None, or has not run
NoToken == [n |-> 0, len |-> 0]
NoReply == [keys |-> {}, id |-> 0, token |-> NoToken, nodes |-> {}, values |-> {}]

\* no datagram received yet, and the fields of one: whether it decodes to a
\* dict, its b"y", b"t" and b"q", and the members of b"a"
NoQuery == [kind |-> "none", y |-> "", t |-> 0, q |-> "", id |-> 0, target |-> 0,
            token |-> NoToken, port |-> 0, implied_port |-> FALSE]

\* sendto was not called
NoDatagram == [keys |-> {}, y |-> "", t |-> 0, r |-> NoReply]

\* KRPCProtocol.__init__ (protocol.py 25-40): no call outstanding. future and
\* timeout are the objects created per call; handlers are the handle_response
\* tasks datagram_received has started; sets counts set_result per future.
\* peer_storage holds the peers not yet expired per info-hash, token_storage
\* the tokens issued; router is the routing table; query and reply are the
\* last datagram received and what its handler returned, sent what sendto was
\* called with for it, raised the exception its task ended with; now is
\* time.monotonic(). buckets are the buckets of the routing table, each with
\* its range and whether it is lonely; chosen are the values random.randint
\* returned to the last get_refresh_ids.
NewKRPCProtocol ==
    [outstanding |-> {},
     future |-> [t \in TxIds |-> [state |-> "none", ok |-> FALSE, args |-> <<>>]],
     timeout |-> [t \in TxIds |-> "none"], handlers |-> <<>>, next_tx |-> 1,
     sets |-> [t \in TxIds |-> 0], error |-> "",
     peer_storage |-> [h \in Ids |-> {}], token_storage |-> {}, router |-> {},
     query |-> NoQuery, reply |-> NoReply, sent |-> NoDatagram, raised |-> "", now |-> 0,
     buckets |-> <<>>, chosen |-> <<>>]

\* no datagram of a tracker handled yet, and the fields of one
NoTrackerDatagram ==
    [len |-> "none", action |-> 0, transaction_id |-> 0, connection_id |-> 0, peers |-> <<>>]

\* no tracker task followed. pos is the position of the coroutine and res what
\* it returned; state, last_transaction_id, connection_id and cb are the
\* attributes of TrackerUDPProtocol, sent the datagrams it passed to sendto,
\* datagram the last one it handled; cause is the failure the task met; tries
\* is the i of retrieve_peers_http_tracker
NoTracker ==
    [kind |-> "none", pos |-> "none", state |-> "", last_transaction_id |-> 0,
     connection_id |-> 0, sent |-> <<>>, cb |-> "none", cbval |-> <<>>, closed |-> FALSE,
     res |-> None, cause |-> "", tries |-> 0, datagram |-> NoTrackerDatagram]

\* the history of a call: per address the number of peer tasks spawned and the
\* kind of the source whose result spawned the first; the reports dropped as
\* handled already; the result_queue.get() tasks started; the winning task; the
\* writes of the cache file; the peer entries and addresses reported so far
NoHist == [spawned |-> [a \in Addrs |-> 0], source |-> [a \in Addrs |-> "none"],
           dropped |-> {}, gets |-> 0, winner |-> NoId,
           writes |-> 0, reports |-> 0, seen |-> 0]

\* The state after Magnet2Torrent(...) is constructed and retrieve() called. The
\* cache file of the info-hash may exist, with any content. Without use_trackers
\* the tr= list is not read, the additional trackers are tried in calls without a
\* DHT server, and a call has at most MaxSources sources.
Init ==
    /\ cfg \in [trackers : MagnetTrackers, use_trackers : BOOLEAN,
                use_additional_trackers : BOOLEAN, dht_server : {"none", "empty", "ready"},
                torrent_cache_folder : BOOLEAN, dn : DisplayNames,
                infohash : {InfoHash}]
    /\ cfg.use_trackers \/ (cfg.trackers = <<>> /\ ~cfg.use_additional_trackers)
    /\ cfg.use_additional_trackers => cfg.dht_server = "none"
    /\ Len(trackers(cfg)) + (IF cfg.dht_server = "none" THEN 0 ELSE 1) <= MaxSources
    /\ cache \in {[exists |-> FALSE, data |-> <<>>]}
                    \cup [exists : {TRUE}, data : {GoodInfo, BadInfo}]
    /\ cache.exists => cfg.torrent_cache_folder
    /\ pc = "start"
    /\ outcome = [kind |-> "running", torrent |-> NoTorrent]
    /\ tasks = {}
    /\ task = << >>
    /\ task_registry = {}
    /\ handled_peers = {}
    /\ dht = NoDht
    /\ hist = NoHist
    /\ crawl = NoCrawl
    /\ protocol = NewKRPCProtocol
    /\ tracker = NoTracker

\* the state retrieve_torrent works on between two awaits
Local(tk, ts, hp, d, h) ==
    [task |-> tk, tasks |-> ts, handled_peers |-> hp, dht |-> d, hist |-> h,
     registry |-> {}, raised |-> "", won |-> FALSE, result |-> <<>>]

\* asyncio.ensure_future(coroutine) followed by tasks.append / tasks.add
Spawn(L, id, t) ==
    [L EXCEPT !.task = (id :> t) @@ @, !.tasks = @ \cup {id}]

\* the next task result_queue.get() of the DHT stream
SpawnGet(L) ==
    [Spawn(L, DhtId(L.hist.gets + 1), NewTask("dht", 0, "get")) EXCEPT !.hist.gets = @ + 1]

\* the table without the task id
Forget(tk, id) == [i \in DOMAIN tk \ {id} |-> tk[i]]

RECURSIVE SpawnTrackers(_, _, _)

\* lines 114-130: the loop over the tracker URLs, from the i-th on.
\* retrieve_peers_http_tracker takes four arguments (task_registry, tracker,
\* infohash, logger) and is called with three: the call raises TypeError.
\* netloc.split(":") of a udp URL without a port does not unpack: ValueError.
SpawnTrackers(L, urls, i) ==
    IF i > Len(urls) THEN L
    ELSE IF urls[i].scheme = "http" THEN [L EXCEPT !.raised = "TypeError"]
    ELSE IF urls[i].scheme = "udpnoport" THEN [L EXCEPT !.raised = "ValueError"]
    ELSE IF urls[i].scheme = "udp"
         THEN SpawnTrackers(Spawn(L, UdpId(i), NewTask("udp", i, "endpoint")), urls, i + 1)
    ELSE SpawnTrackers(L, urls, i + 1)

\* Server.find_peers (network.py 148-199), the part that runs inside the call:
\* without neighbours a finished future holding the terminal batch; otherwise the
\* spider and found_peers are started, cancel_task is registered and the task is
\* result_queue.get()
find_peers(L, mode) ==
    IF mode = "empty"
    THEN [Spawn(L, DhtId(0),
                [NewTask("dht", 0, "done") EXCEPT !.res = TrackerResult(<<>>, FALSE)])
            EXCEPT !.dht.terminals = 1]
    ELSE [SpawnGet(L) EXCEPT
            !.dht = [NoDht EXCEPT !.cancel_task = "pending", !.found_peers = "wait",
                                  !.spider = "running"],
            !.registry = @ \cup {CancelTask}]

\* lines 106-139 of retrieve_torrent: the tasks it starts before its loop
StartTasks(c) ==
    LET L0 == Local(<< >>, {}, {}, NoDht, NoHist)
        L1 == IF c.use_trackers THEN SpawnTrackers(L0, trackers(c), 1) ELSE L0
    IN  IF L1.raised # "" \/ c.dht_server = "none" THEN L1
        ELSE find_peers(L1, c.dht_server)

\* faulty variant: the cache path is never set
NoCachePath(c) == FALSE

\* the torrent_cache_path property is None without a cache folder
torrent_cache_path(c) == c.torrent_cache_folder

\* faulty variant: the loop does not end on an empty task set
NeverDrained(ts) == FALSE

\* line 140: the condition that ends `while tasks`
Drained(ts) == ts = {}

\* lines 100-104: the cache is hit
CacheHit ==
    /\ pc = "start"
    /\ torrent_cache_path(cfg) /\ cache.exists
    /\ pc' = "returned"
    /\ outcome' = [kind |-> "returned", torrent |-> create_torrent(cfg, cache.data)]
    /\ UNCHANGED <<crawl, protocol, tracker, cfg, cache, tasks, task, task_registry, handled_peers, dht, hist>>

\* lines 100-140: no cache hit; the trackers and the DHT stream are started, and
\* with no task at all the loop is not entered and FailedToFetchException raised
Start ==
    /\ pc = "start"
    /\ ~(torrent_cache_path(cfg) /\ cache.exists)
    /\ LET L == StartTasks(cfg)
       IN  /\ task' = L.task
           /\ tasks' = L.tasks
           /\ dht' = L.dht
           /\ hist' = L.hist
           /\ task_registry' = L.registry
           /\ IF L.raised # ""
              THEN /\ pc' = "raised"
                   /\ outcome' = [kind |-> L.raised, torrent |-> NoTorrent]
              ELSE IF Drained(L.tasks)
              THEN /\ pc' = "failed"
                   /\ outcome' = [kind |-> "FailedToFetchException", torrent |-> NoTorrent]
              ELSE /\ pc' = "wait"
                   /\ UNCHANGED outcome
    /\ UNCHANGED <<crawl, protocol, tracker, cfg, cache, handled_peers>>

\* faulty variant: no peer counts as handled
NeverHandled(peer, handled) == FALSE

\* line 146: peer in handled_peers
IsHandled(peer, handled) == peer \in handled

RECURSIVE SpawnPeers(_, _, _, _)

\* lines 145-155: one peer task for every peer of the result not handled before;
\* src is the kind of the task whose result it is
SpawnPeers(L, src, peers, i) ==
    IF i > Len(peers) THEN L
    ELSE IF IsHandled(peers[i], L.handled_peers)
         THEN SpawnPeers([L EXCEPT !.hist.dropped = @ \cup {<<peers[i], src>>}],
                         src, peers, i + 1)
    ELSE LET L1 == Spawn([L EXCEPT !.handled_peers = @ \cup {peers[i]},
                                   !.hist.spawned[peers[i]] = @ + 1,
                                   !.hist.source[peers[i]] = src],
                         PeerId(peers[i], L.hist.spawned[peers[i]] + 1),
                         NewTask("peer", peers[i], "new"))
         IN  SpawnPeers(L1, src, peers, i + 1)

\* faulty variant: task_registry is left out of the chain
OnlyTasks(registry, ts) == [futures |-> {}, tasks |-> ts]

\* line 162: chain(task_registry, tasks), the futures and tasks to cancel
CancelTargets(registry, ts) == [futures |-> registry, tasks |-> ts]

\* lines 162-164: cancel() on every target that is not done. A future is
\* cancelled at once; a task is asked to cancel and sees CancelledError when it
\* next runs.
CancelAll(L) ==
    LET tg == CancelTargets(L.registry, L.tasks)
        c1(i, t) == IF i \in tg.tasks /\ ~Done(t) THEN [t EXCEPT !.cancel = TRUE] ELSE t
        c2(i, t) == IF ConnOf(i) \in tg.futures /\ t.conn = "pending"
                    THEN [t EXCEPT !.conn = "cancelled"] ELSE t
        c3(i, t) == IF CbOf(i) \in tg.futures /\ t.proto.cb = "pending"
                    THEN [t EXCEPT !.proto.cb = "cancelled"] ELSE t
    IN  [L EXCEPT
            !.task = [i \in DOMAIN L.task |-> c3(i, c2(i, c1(i, L.task[i])))],
            !.dht.cancel_task =
                IF CancelTask \in tg.futures /\ @ = "pending" THEN "cancelled" ELSE @]

\* faulty variants: no peer result wins; every peer result wins
NoWinner(r) == FALSE
AnyResult(r) == TRUE

\* line 161: if result
IsWinner(r) == ~r.none /\ r.data # <<>>

\* lines 143-169: the body of `for task in done` for the task id. A task whose
\* result has been handled without leaving the loop is dropped from the table.
\* faulty variant: the continuation of a result is not started
NoContinuation(L, t) == L

\* lines 156-159: the continuation result[2]() of a result that has one is
\* started as a task with the tag of the finished task
Continuation(L, t) ==
    IF t.res.next
    THEN [SpawnGet(L) EXCEPT !.task[DhtId(L.hist.gets + 1)].task_type = t.task_type]
    ELSE L

ProcessTask(L, id) ==
    LET t == L.task[id]
        r == t.res
        L0 == [L EXCEPT !.task = Forget(@, id)]
    IN  IF r.exc # "" THEN [L EXCEPT !.raised = r.exc]          \* task.result() raises
        ELSE IF t.task_type = "tracker" THEN
            IF r.none THEN [L EXCEPT !.raised = "TypeError"]     \* None[1]
            ELSE LET L1 == SpawnPeers(L0, t.kind, r.peers, 1)
                 IN  Continuation(L1, t)
        ELSE IF IsWinner(r)
            THEN [CancelAll(L) EXCEPT !.won = TRUE, !.result = r.data, !.hist.winner = id]
            ELSE L0

RECURSIVE ProcessDone(_, _, _)

\* lines 142-169: the loop over done in the order `order`, left by return or raise
ProcessDone(L, order, i) ==
    IF i > Len(order) \/ L.won \/ L.raised # "" THEN L
    ELSE ProcessDone(ProcessTask(L, order[i]), order, i + 1)

\* the orders in which a set can be iterated
Orders(S) ==
    {f \in [1..Cardinality(S) -> S] : \A i, j \in 1..Cardinality(S) : f[i] = f[j] => i = j}

\* lines 140-171: asyncio.wait returns the finished tasks; they are handled in the
\* iteration order of the set; then the call returns, raises, or waits again
WaitReturn ==
    /\ pc = "wait"
    /\ LET done == {id \in tasks : Done(task[id])}
       IN  /\ done # {}
           /\ \E order \in Orders(done) :
                LET L0 == [Local(task, tasks \ done, handled_peers, dht, hist)
                             EXCEPT !.registry = task_registry]
                    L == ProcessDone(L0, order, 1)
                IN  /\ task' = L.task
                    /\ tasks' = L.tasks
                    /\ handled_peers' = L.handled_peers
                    /\ dht' = L.dht
                    /\ IF L.raised # ""
                       THEN /\ pc' = "raised"
                            /\ outcome' = [kind |-> L.raised, torrent |-> NoTorrent]
                            /\ hist' = L.hist
                            /\ UNCHANGED cache
                       ELSE IF L.won
                       THEN /\ pc' = "returned"
                            /\ cache' = IF torrent_cache_path(cfg)
                                        THEN [exists |-> TRUE, data |-> L.result]
                                        ELSE cache
                            /\ hist' = [L.hist EXCEPT !.writes =
                                          IF torrent_cache_path(cfg) THEN @ + 1 ELSE @]
                            /\ outcome' = [kind |-> "returned",
                                           torrent |-> create_torrent(cfg, L.result)]
                       ELSE /\ hist' = L.hist
                            /\ UNCHANGED cache
                            /\ IF Drained(L.tasks)
                               THEN /\ pc' = "failed"
                                    /\ outcome' = [kind |-> "FailedToFetchException",
                                                   torrent |-> NoTorrent]
                               ELSE /\ pc' = "wait"
                                    /\ UNCHANGED outcome
    /\ UNCHANGED <<crawl, protocol, tracker, cfg, task_registry>>

\* the tasks that run kind and are not finished
Running(kind) == {id \in DOMAIN task : task[id].kind = kind /\ ~Done(task[id])}

\* the coroutine of a task returns res; of its protocol object only the futures
\* that task_registry may still hold, and the transport, are kept
Return(t, res) ==
    [t EXCEPT !.pos = "done", !.res = res,
              !.proto = [NewProtocol EXCEPT !.cb = t.proto.cb, !.closed = t.proto.closed,
                                            !.wrong_infohash = t.proto.wrong_infohash]]

\* the task sees CancelledError when it next runs: its cancel() was called, or the
\* future it awaits through wait_for was cancelled
SeesCancel(t) ==
    /\ ~Done(t)
    /\ \/ t.cancel
       \/ t.pos = "connecting" /\ t.conn = "cancelled"
       \/ t.pos \in {"fetching", "wait"} /\ t.proto.cb = "cancelled"

\* cancelled tasks are woken in one pass of the event loop, one after the other
\* and before any further I/O event: here in the order of their ids
NextCancelled(id) ==
    /\ SeesCancel(task[id])
    /\ id = CHOOSE j \in DOMAIN task : SeesCancel(task[j])

ZeroPeers == TrackerResult(<<>>, FALSE)

(******************** udptracker.py ****************************************)
\* the datagrams a tracker can send, by what _handle_response sees of them:
\* "junk" is shorter than a connect response, "connect" has the 16 bytes of one,
\* "announce" has the 20-byte announce header and the compact peers
Datagrams(k, n) ==
    {[kind |-> k0, peers |-> <<>>] : k0 \in {"junk", "connect"}}
        \cup {[kind |-> "announce", peers |-> ps] : ps \in PeerLists(k, n)}

\* TrackerUDPProtocol.__init__; cb is the future of retrieve_peers_udp_tracker
NewUdpProtocol == [NewProtocol EXCEPT !.state = "connect"]

\* TrackerUDPProtocol._handle_response
handle_response(p, d) ==
    IF p.state = "connect" THEN
        IF d.kind # "connect" THEN p                       \* len(data) != 16
        ELSE [p EXCEPT !.state = "announce"]               \* send_announce
    ELSE IF d.kind \in {"junk", "connect"} THEN p          \* len(data) < 20
    ELSE IF CbDone(p) THEN p
    ELSE [p EXCEPT !.cb = "result", !.cbval = d.peers]

\* lines 93-98: create_datagram_endpoint raises socket.gaierror or OSError
UdpEndpointFails(id) ==
    /\ task[id].pos = "endpoint" /\ ~task[id].cancel
    /\ task' = [task EXCEPT ![id] = Return(@, ZeroPeers)]
    /\ UNCHANGED <<crawl, protocol, tracker, cfg, cache, pc, outcome, tasks, task_registry, handled_peers, dht, hist>>

\* lines 94-102: the endpoint opens, connection_made sends the connect request,
\* cb is put in task_registry and awaited for 12 s
UdpEndpointOpens(id) ==
    /\ task[id].pos = "endpoint" /\ ~task[id].cancel
    /\ task' = [task EXCEPT ![id] = [@ EXCEPT !.pos = "wait", !.proto = NewUdpProtocol]]
    /\ task_registry' = task_registry \cup {CbOf(id)}
    /\ UNCHANGED <<crawl, protocol, tracker, cfg, cache, pc, outcome, tasks, handled_peers, dht, hist>>

\* datagram_received and the _handle_response task it starts
UdpDatagram(id) ==
    /\ task[id].pos = "wait" /\ ~task[id].cancel /\ ~task[id].proto.closed
    /\ \E d \in Datagrams(hist.seen, MaxReports - hist.reports) :
        /\ handle_response(task[id].proto, d) # task[id].proto
        /\ task' = [task EXCEPT ![id].proto = handle_response(@, d)]
        /\ hist' = [hist EXCEPT !.reports = @ + Len(d.peers), !.seen = Seen(@, d.peers)]
    /\ UNCHANGED <<crawl, protocol, tracker, cfg, cache, pc, outcome, tasks, task_registry, handled_peers, dht>>

\* lines 102-103 and 108-109: wait_for returns the result of cb
UdpReturn(id) ==
    /\ task[id].pos = "wait" /\ ~task[id].cancel
    /\ task[id].proto.cb = "result"
    /\ task' = [task EXCEPT ![id] = Return(@, TrackerResult(@.proto.cbval, FALSE))]
    /\ task_registry' = task_registry \ {CbOf(id)}
    /\ UNCHANGED <<crawl, protocol, tracker, cfg, cache, pc, outcome, tasks, handled_peers, dht, hist>>

\* lines 104-105: wait_for cancels cb after 12 s and raises TimeoutError
UdpTimeout(id) ==
    /\ task[id].pos = "wait" /\ ~task[id].cancel
    /\ task[id].proto.cb = "pending"
    /\ task' = [task EXCEPT ![id] = Return([@ EXCEPT !.proto.cb = "cancelled"], ZeroPeers)]
    /\ UNCHANGED <<crawl, protocol, tracker, cfg, cache, pc, outcome, tasks, task_registry, handled_peers, dht, hist>>

\* the task is cancelled: in create_datagram_endpoint CancelledError is not caught
\* and ends the task; in wait_for (lines 106-107) the endpoint is closed and the
\* coroutine returns None
UdpCancelled(id) ==
    /\ task[id].pos \in {"endpoint", "wait"}
    /\ NextCancelled(id)
    /\ task' = [task EXCEPT ![id] =
                 IF @.pos = "endpoint" THEN Return(@, Raised("CancelledError"))
                 ELSE Return([@ EXCEPT !.proto.closed = TRUE,
                                       !.proto.cb = IF @ = "pending" THEN "cancelled" ELSE @],
                             None)]
    /\ UNCHANGED <<crawl, protocol, tracker, cfg, cache, pc, outcome, tasks, task_registry, handled_peers, dht, hist>>

UdpTracker ==
    \E id \in Running("udp") :
        \/ UdpEndpointFails(id)
        \/ UdpEndpointOpens(id)
        \/ UdpDatagram(id)
        \/ UdpReturn(id)
        \/ UdpTimeout(id)
        \/ UdpCancelled(id)

(******************** peer.py: fetch_from_peer *****************************)
\* what a remote peer sends on a connection, arriving as one TCP segment: a
\* handshake alone, or a good handshake, an extension handshake or an oversized
\* frame, and up to MaxMsgs metadata messages
HandshakeOk == Frame("handshake", TRUE, TRUE, TRUE, FALSE, -1, 0, 0, <<>>, "no")
Segments ==
    {<<h>> : h \in Handshakes}
        \cup {<<HandshakeOk, e>> \o ms :
                e \in ExtHandshakes \cup BigFrames, ms \in SeqsUpTo(MetaMessages, MaxMsgs)}

\* a protocol object whose transport is closed and whose cb is done: only cb
\* is read from then on
Trim(p) ==
    IF p.closed /\ CbDone(p)
    THEN [NewProtocol EXCEPT !.closed = TRUE, !.cb = p.cb, !.cbval = p.cbval,
                             !.wrong_infohash = p.wrong_infohash,
                             !.resolved = p.resolved]
    ELSE p

\* lines 184-194: the coroutine starts; the connection task is put in
\* task_registry and awaited for 7 s
PeerStart(id) ==
    /\ task[id].pos = "new" /\ ~task[id].cancel
    /\ task' = [task EXCEPT ![id] = [@ EXCEPT !.pos = "connecting", !.conn = "pending"]]
    /\ task_registry' = task_registry \cup {ConnOf(id)}
    /\ UNCHANGED <<crawl, protocol, tracker, cfg, cache, pc, outcome, tasks, handled_peers, dht, hist>>

\* lines 194-195 and 202-205: the connection is made (connection_made sends the
\* handshake); the connection task leaves task_registry, cb enters it and is
\* awaited for 30 s
PeerConnected(id) ==
    /\ task[id].pos = "connecting" /\ ~task[id].cancel /\ task[id].conn = "pending"
    /\ task' = [task EXCEPT ![id] = [@ EXCEPT !.pos = "fetching", !.conn = "done"]]
    /\ task_registry' = (task_registry \ {ConnOf(id)}) \cup {CbOf(id)}
    /\ UNCHANGED <<crawl, protocol, tracker, cfg, cache, pc, outcome, tasks, handled_peers, dht, hist>>

\* faulty variant: the exception of the connection attempt is not caught
connect_failure_raises(t, how) ==
    Return([t EXCEPT !.conn = how],
           Raised(IF how = "done" THEN "OSError" ELSE "TimeoutError"))

\* lines 196-198: except (OSError, asyncio.TimeoutError): return
connect_failed(t, how) == Return([t EXCEPT !.conn = how], None)

\* lines 193-198: create_connection raises OSError, or wait_for cancels it after
\* 7 s and raises TimeoutError; the coroutine returns None
PeerConnectFails(id) ==
    /\ task[id].pos = "connecting" /\ ~task[id].cancel /\ task[id].conn = "pending"
    /\ \E how \in {"done", "cancelled"} :
        task' = [task EXCEPT ![id] = connect_failed(@, how)]
    /\ UNCHANGED <<crawl, protocol, tracker, cfg, cache, pc, outcome, tasks, task_registry, handled_peers, dht, hist>>

\* the protocol objects data_received leaves when a segment arrives on a new
\* connection and settles cb. A peer whose bytes leave the protocol waiting is, to
\* the task, a peer that sends nothing until the timeout or the connection is lost.
SegmentOutcomes ==
    {Trim(q) : q \in {p \in {data_received(NewProtocol, fs, InfoHash) : fs \in Segments} :
                        CbDone(p)}}

\* BittorrentTCPProtocol.data_received on a new connection
PeerData(id) ==
    /\ task[id].pos = "fetching" /\ ~task[id].cancel
    /\ task[id].proto = NewProtocol
    /\ \E q \in SegmentOutcomes : task' = [task EXCEPT ![id].proto = q]
    /\ UNCHANGED <<crawl, protocol, tracker, cfg, cache, pc, outcome, tasks, task_registry, handled_peers, dht, hist>>

\* BittorrentTCPProtocol.connection_lost: the remote end closes the connection
PeerConnectionLost(id) ==
    /\ task[id].pos = "fetching" /\ ~task[id].cancel /\ ~task[id].proto.closed
    /\ task' = [task EXCEPT ![id].proto = connection_lost(@)]
    /\ UNCHANGED <<crawl, protocol, tracker, cfg, cache, pc, outcome, tasks, task_registry, handled_peers, dht, hist>>

\* lines 205-207: cb has a result; it leaves task_registry and is returned
PeerReturn(id) ==
    /\ task[id].pos = "fetching" /\ ~task[id].cancel
    /\ task[id].proto.cb \in {"none", "bytes"}
    /\ task' = [task EXCEPT ![id] =
                 Return(@, IF @.proto.cb = "bytes" THEN BytesResult(@.proto.cbval) ELSE None)]
    /\ task_registry' = task_registry \ {CbOf(id)}
    /\ UNCHANGED <<crawl, protocol, tracker, cfg, cache, pc, outcome, tasks, handled_peers, dht, hist>>

\* lines 208-209: wait_for cancels cb after 30 s and raises TimeoutError;
\* protocol.kill("Timeout")
PeerTimeout(id) ==
    /\ task[id].pos = "fetching" /\ ~task[id].cancel
    /\ task[id].proto.cb = "pending"
    /\ task' = [task EXCEPT ![id] = Return([@ EXCEPT !.proto = kill([@ EXCEPT !.cb = "cancelled"], "Timeout")], None)]
    /\ UNCHANGED <<crawl, protocol, tracker, cfg, cache, pc, outcome, tasks, task_registry, handled_peers, dht, hist>>

\* the task is cancelled: before its first step it ends cancelled without
\* running; connecting (lines 199-200) it returns None; fetching (lines 210-211)
\* wait_for cancels cb, protocol.kill("Cancelled") closes the transport, and the
\* coroutine returns None
PeerCancelled(id) ==
    /\ task[id].pos \in {"new", "connecting", "fetching"}
    /\ NextCancelled(id)
    /\ task' = [task EXCEPT ![id] =
                 IF @.pos = "new" THEN Return(@, Raised("CancelledError"))
                 ELSE IF @.pos = "connecting"
                 THEN Return([@ EXCEPT !.conn = IF @ = "pending" THEN "cancelled" ELSE @], None)
                 ELSE Return([@ EXCEPT !.proto =
                                 kill([@ EXCEPT !.cb = IF @ = "pending" THEN "cancelled" ELSE @],
                                      "Cancelled")],
                             None)]
    /\ UNCHANGED <<crawl, protocol, tracker, cfg, cache, pc, outcome, tasks, task_registry, handled_peers, dht, hist>>

Peer ==
    \E id \in Running("peer") :
        \/ PeerStart(id)
        \/ PeerConnected(id)
        \/ PeerConnectFails(id)
        \/ PeerData(id)
        \/ PeerConnectionLost(id)
        \/ PeerReturn(id)
        \/ PeerTimeout(id)
        \/ PeerCancelled(id)

(******************** dht: Server.find_peers, PeerSpiderCrawl **************)
TerminalBatch == [peers |-> <<>>, next |-> FALSE]

\* PeerSpiderCrawl._nodes_found (crawling.py 87-109) after one round of get_peers
\* calls: with cancel_crawl set it returns; otherwise every response with values
\* puts its peers on the queue, and when the heap has been contacted throughout
\* crawl_finished is set and [] is put. vals are the peer lists of the round's
\* responses with values; end says whether the heap has been contacted
\* throughout ("finished"), another round follows ("more"), or get_values
\* (crawling.py 153-158) raised on a response handled after those of vals.
SpiderRound ==
    /\ dht.spider = "running"
    /\ IF dht.cancel_crawl
       THEN /\ dht' = [dht EXCEPT !.spider = "stopped"]
            /\ UNCHANGED hist
       ELSE \E vals \in BatchSeqs(hist.seen, MaxReports - hist.reports),
               end \in {"more", "finished", "raised"} :
            /\ vals # <<>> \/ end # "more"
            /\ dht' = [dht EXCEPT
                        !.spider_queue = @ \o vals \o (IF end = "finished" THEN << <<>> >> ELSE <<>>),
                        !.crawl_finished = (end = "finished"),
                        !.spider = [more |-> "running", finished |-> "stopped",
                                    raised |-> "raised"][end]]
            /\ hist' = [hist EXCEPT !.reports = @ + Len(Flatten(vals)),
                                     !.seen = Seen(@, Flatten(vals))]
    /\ UNCHANGED <<crawl, protocol, tracker, cfg, cache, pc, outcome, tasks, task, task_registry, handled_peers>>

\* result_queue.put(item) of found_peers (network.py 179-185, 193-195)
Emit(d, item) ==
    [d EXCEPT !.result_queue = Append(@, item),
              !.terminals = IF item.next THEN @ ELSE @ + 1]

\* faulty variant: found_peers ends without its last put
EndsSilently(d) == [d EXCEPT !.found_peers = "done"]

\* found_peers out of its loop (network.py 193-196): the terminal batch is put
AfterLoop(d) == [Emit(d, TerminalBatch) EXCEPT !.found_peers = "done"]

\* found_peers (network.py 170-196) woken by spider_queue.get(): the batch goes on
\* result_queue with a continuation; then cancel_task, if it is done too, raises
\* CancelledError out of the loop over done, and else the while condition is
\* tested; out of the loop the terminal batch is put and cancel_task removed
FoundPeersBatch ==
    /\ dht.found_peers = "wait"
    /\ dht.spider_queue # <<>>
    /\ LET item == [peers |-> Head(dht.spider_queue), next |-> TRUE]
           cancelled == dht.cancel_task = "cancelled"
           leave == cancelled \/ dht.crawl_finished
           d1 == [Emit(dht, item) EXCEPT !.spider_queue = Tail(@),
                                         !.cancel_crawl = @ \/ cancelled]
       IN  /\ dht' = IF leave THEN AfterLoop(d1) ELSE d1
           /\ task_registry' = IF leave THEN task_registry \ {CancelTask} ELSE task_registry
    /\ UNCHANGED <<crawl, protocol, tracker, cfg, cache, pc, outcome, tasks, task, handled_peers, hist>>

\* found_peers woken by cancel_task: lines 187-196
FoundPeersCancelled ==
    /\ dht.found_peers = "wait"
    /\ dht.cancel_task = "cancelled"
    /\ dht' = AfterLoop([dht EXCEPT !.cancel_crawl = TRUE])
    /\ task_registry' = task_registry \ {CancelTask}
    /\ UNCHANGED <<crawl, protocol, tracker, cfg, cache, pc, outcome, tasks, task, handled_peers, hist>>

\* the task result_queue.get() of the orchestrator takes the next item
DhtGet(id) ==
    /\ task[id].pos = "get" /\ ~task[id].cancel
    /\ dht.result_queue # <<>>
    /\ task' = [task EXCEPT ![id] =
                 Return(@, TrackerResult(Head(dht.result_queue).peers,
                                         Head(dht.result_queue).next))]
    /\ dht' = [dht EXCEPT !.result_queue = Tail(@)]
    /\ UNCHANGED <<crawl, protocol, tracker, cfg, cache, pc, outcome, tasks, task_registry, handled_peers, hist>>

\* the task result_queue.get() is cancelled
DhtCancelled(id) ==
    /\ task[id].pos = "get" /\ NextCancelled(id)
    /\ task' = [task EXCEPT ![id] = Return(@, Raised("CancelledError"))]
    /\ UNCHANGED <<crawl, protocol, tracker, cfg, cache, pc, outcome, tasks, task_registry, handled_peers, dht, hist>>

Dht ==
    \/ SpiderRound
    \/ FoundPeersBatch
    \/ FoundPeersCancelled
    \/ \E id \in Running("dht") : DhtGet(id) \/ DhtCancelled(id)

Next == CacheHit \/ Start \/ WaitReturn \/ UdpTracker \/ Peer \/ Dht

Spec == Init /\ [][Next]_vars

(************* dht: KRPCProtocol calls and SpiderCrawl, call by call *******)
MaxK == 3
MaxAlpha == 2
MaxHandlers == 1
MaxNodes == 1
PeerEntryLen == 6

\* the dict at b"r" of a response: the ids of its compact nodes, or the lengths
\* in bytes of the entries of its values
Nodes(ns) == [kind |-> "nodes", nodes |-> ns, values |-> <<>>]
Values(ls) == [kind |-> "values", nodes |-> {}, values |-> ls]
Payloads == {Nodes(ns) : ns \in {x \in SUBSET NodeIds : Cardinality(x) <= MaxNodes}}
                \cup {Values(<<PeerEntryLen>>), Values(<<PeerEntryLen - 1>>)}

\* a future of a call: pending, or done with (True, args) or (False, None)
PendingFuture == [state |-> "pending", ok |-> FALSE, args |-> Nodes({})]
Result(ok, args) == [state |-> "done", ok |-> ok, args |-> args]

\* the datagrams a node of the network can send, told apart by what
\* datagram_received and handle_response do with them: an error; a response
\* without a transaction id (t = 0); a response whose transaction id is not
\* outstanding; a response to an outstanding call, with any payload
KrpcDatagrams(kr) ==
    {[y |-> "e", t |-> 0, r |-> Nodes({})], [y |-> "r", t |-> 0, r |-> Nodes({})]}
        \cup {[y |-> "r", t |-> t, r |-> Nodes({})] : t \in TxIds \ kr.outstanding}
        \cup [y : {"r"}, t : kr.outstanding, r : Payloads]

\* KRPCProtocol.__getattr__.func (protocol.py 282-307): the call takes a fresh
\* transaction id, creates its future and its timer and stores them
func(kr) ==
    [kr EXCEPT !.outstanding = @ \cup {kr.next_tx},
               !.future[kr.next_tx] = PendingFuture,
               !.timeout[kr.next_tx] = "scheduled",
               !.next_tx = @ + 1]

\* Future.set_result: InvalidStateError on a future that is done. No future of
\* a call is ever cancelled, so `not future.cancelled()` holds at both callers.
set_result(kr, t, r) ==
    IF kr.future[t].state = "pending"
    THEN [kr EXCEPT !.future[t] = r, !.sets[t] = @ + 1]
    ELSE [kr EXCEPT !.error = "InvalidStateError"]

\* faulty variant: the timer of the call is left scheduled
response_keeps_timer(kr, t, args) ==
    IF t \notin kr.outstanding THEN kr
    ELSE [set_result(kr, t, Result(TRUE, args)) EXCEPT !.outstanding = @ \ {t}]

\* KRPCProtocol.handle_response (protocol.py 96-106)
krpc_handle_response(kr, t, args) ==
    IF t \notin kr.outstanding THEN kr
    ELSE LET k1 == set_result([kr EXCEPT !.timeout[t] = "cancelled"], t, Result(TRUE, args))
         IN  IF k1.error # "" THEN k1 ELSE [k1 EXCEPT !.outstanding = @ \ {t}]

\* faulty variant: the entry of the call is kept
timeout_keeps_entry(kr, t) == set_result(kr, t, Result(FALSE, Nodes({})))

\* KRPCProtocol._timeout (protocol.py 108-114), called by the timer of t
krpc_timeout(kr, t) ==
    IF t \notin kr.outstanding THEN [kr EXCEPT !.error = "KeyError"]
    ELSE LET k1 == set_result(kr, t, Result(FALSE, Nodes({})))
         IN  IF k1.error # "" THEN k1 ELSE [k1 EXCEPT !.outstanding = @ \ {t}]

\* KRPCProtocol.datagram_received (protocol.py 45-73) for a response or an
\* error: a response with a transaction id starts a handle_response task
DatagramReceived ==
    /\ crawl.pos # "none"
    /\ protocol.error = "" /\ Len(protocol.handlers) < MaxHandlers
    /\ \E d \in KrpcDatagrams(protocol) :
        protocol' = [protocol EXCEPT
                       !.handlers = IF d.y = "r" /\ d.t # 0
                                    THEN Append(@, [t |-> d.t, args |-> d.r]) ELSE @]
    /\ UNCHANGED <<crawl, tracker, cfg, cache, pc, outcome, tasks, task, task_registry,
                   handled_peers, dht, hist>>

\* the oldest handle_response task runs
HandleResponse ==
    /\ protocol.error = "" /\ protocol.handlers # <<>>
    /\ LET h == Head(protocol.handlers)
       IN  protocol' = krpc_handle_response([protocol EXCEPT !.handlers = Tail(@)], h.t, h.args)
    /\ UNCHANGED <<crawl, tracker, cfg, cache, pc, outcome, tasks, task, task_registry,
                   handled_peers, dht, hist>>

\* the timer of a call fires, _wait_timeout after the call
Timeout ==
    /\ protocol.error = ""
    /\ \E t \in TxIds :
        /\ protocol.timeout[t] = "scheduled"
        /\ protocol' = krpc_timeout([protocol EXCEPT !.timeout[t] = "fired"], t)
    /\ UNCHANGED <<crawl, tracker, cfg, cache, pc, outcome, tasks, task, task_registry,
                   handled_peers, dht, hist>>

RECURSIVE Nearest(_, _)
\* NodeHeap: the k nodes nearest to the target among ns
Nearest(ns, k) ==
    IF Cardinality(ns) <= k THEN ns
    ELSE Nearest(ns \ {CHOOSE n \in ns : \A m \in ns : m <= n}, k)

RECURSIVE calls(_, _)
\* rpcmethod(peer, self.node) for n peers: n calls of func
calls(kr, n) == IF n = 0 THEN kr ELSE calls(func(kr), n - 1)

\* faulty variant: every round dispatches to everyone not yet queried
count_all(c) == Cardinality(c.nearest)

\* SpiderCrawl._find (crawling.py 58-60): the width of the round
count(c) == IF c.nearest = c.last_ids_crawled THEN Cardinality(c.nearest) ELSE c.alpha

\* SpiderCrawl._find (crawling.py 57-67) up to the await of gather_dict: the
\* nearest `count` uncontacted nodes are called and marked contacted
find(c, kr) ==
    LET peers == Nearest(c.nearest \ c.contacted, count(c))
        tx(n) == kr.next_tx + Cardinality({m \in peers : m < n})
    IN  [crawl |-> [c EXCEPT !.last_ids_crawled = c.nearest,
                             !.contacted = @ \cup peers,
                             !.calls = [n \in peers |-> tx(n)],
                             !.returned = {},
                             !.pos = "gather"],
         protocol |-> calls(kr, Cardinality(peers))]

\* RPCFindResponse.get_values (crawling.py 153-158): struct.unpack("!IH", value)
\* raises on an entry that is not PeerEntryLen bytes long
get_values_raises(args) == \E i \in DOMAIN args.values : args.values[i] # PeerEntryLen

\* get_values otherwise: one peer per entry (the first address stands for all)
get_values(args) == [i \in DOMAIN args.values |-> 1]

RECURSIVE HandleResponses(_, _, _, _)
\* the loop of _nodes_found over the responses (crawling.py 95-102, 124-129),
\* in the order the calls were made. R holds nearest, the batches put on the
\* queue, toremove, and whether get_values raised.
HandleResponses(c, kr, todo, R) ==
    IF todo = {} THEN R
    ELSE LET n == CHOOSE m \in todo : \A o \in todo : m <= o
             r == kr.future[c.calls[n]]
         IN  IF ~r.ok
             THEN HandleResponses(c, kr, todo \ {n}, [R EXCEPT !.toremove = @ \cup {n}])
             ELSE IF c.kind = "peer" /\ r.args.kind = "values"
             THEN IF get_values_raises(r.args) THEN [R EXCEPT !.raised = TRUE]
                  ELSE HandleResponses(c, kr, todo \ {n},
                                       [R EXCEPT !.puts = Append(@, get_values(r.args))])
             ELSE HandleResponses(c, kr, todo \ {n},
                                  [R EXCEPT !.nearest = Nearest(@ \cup r.args.nodes, c.ksize)])

\* the futures of a round, and their timers that ran or were cancelled, are
\* dropped once gather_dict has returned the results
Collected(kr, c) ==
    LET round == {c.calls[n] : n \in DOMAIN c.calls}
    IN  [kr EXCEPT
           !.future = [t \in TxIds |->
               IF t \in round THEN [state |-> "collected", ok |-> FALSE, args |-> Nodes({})]
               ELSE @[t]],
           !.timeout = [t \in TxIds |->
               IF t \in round /\ @[t] # "scheduled" THEN "collected" ELSE @[t]]]

\* KRPCProtocol.welcome_if_new (protocol.py 226-244): a node the router does
\* not know is added
welcome_if_new(kr, id) == [kr EXCEPT !.router = @ \cup {id}]

\* faulty variant: a node that did not answer stays in the routing table
call_response_keeps_contact(kr, result, node) ==
    IF ~result.ok THEN kr ELSE [kr EXCEPT !.router = @ \cup {node}]

\* KRPCProtocol.handle_call_response (protocol.py 246-258): remove_contact for
\* (False, None), welcome_if_new otherwise
handle_call_response(kr, result, node) ==
    IF ~result.ok THEN [kr EXCEPT !.router = @ \ {node}] ELSE welcome_if_new(kr, node)

\* call_find_node or call_get_peers (protocol.py 202-214) resumes with the
\* result of its future and returns what handle_call_response returns
CallReturns ==
    /\ crawl.pos = "gather"
    /\ \E n \in DOMAIN crawl.calls \ crawl.returned :
        /\ protocol.future[crawl.calls[n]].state = "done"
        /\ protocol' = handle_call_response(protocol, protocol.future[crawl.calls[n]], n)
        /\ crawl' = [crawl EXCEPT !.returned = @ \cup {n}]
    /\ UNCHANGED <<tracker, cfg, cache, pc, outcome, tasks, task, task_registry,
                   handled_peers, dht, hist>>

\* the task spider.find() starts: the first round
SpiderStart ==
    /\ crawl.pos = "new"
    /\ LET F == find(crawl, protocol)
       IN  crawl' = F.crawl /\ protocol' = F.protocol
    /\ UNCHANGED <<tracker, cfg, cache, pc, outcome, tasks, task, task_registry,
                   handled_peers, dht, hist>>

\* gather_dict returns when every call of the round is resolved; then
\* PeerSpiderCrawl._nodes_found (crawling.py 87-109) or
\* NodeSpiderCrawl._nodes_found (119-134) runs, and with it the next _find up to
\* its await: the flag is tested, the responses are handled, the failed nodes
\* removed, and the crawl ends when have_contacted_all()
SpiderNodesFound ==
    /\ crawl.pos = "gather"
    /\ crawl.returned = DOMAIN crawl.calls
    /\ IF crawl.kind = "peer" /\ dht.cancel_crawl
       THEN /\ crawl' = [crawl EXCEPT !.pos = "returned"]
            /\ dht' = [dht EXCEPT !.spider = "stopped"]
            /\ protocol' = Collected(protocol, crawl)
       ELSE LET R == HandleResponses(crawl, protocol, DOMAIN crawl.calls,
                                     [nearest |-> crawl.nearest, puts |-> <<>>,
                                      toremove |-> {}, raised |-> FALSE])
                c1 == [crawl EXCEPT !.nearest = R.nearest \ R.toremove]
                all == c1.nearest \subseteq c1.contacted
                F == find(c1, Collected(protocol, crawl))
                q == dht.spider_queue \o R.puts
            IN  IF R.raised
                THEN /\ crawl' = [crawl EXCEPT !.nearest = R.nearest, !.pos = "raised"]
                     /\ dht' = [dht EXCEPT !.spider_queue = q, !.spider = "raised"]
                     /\ protocol' = Collected(protocol, crawl)
                ELSE IF all
                THEN /\ crawl' = [c1 EXCEPT !.pos = "returned"]
                     /\ dht' = IF crawl.kind = "peer"
                               THEN [dht EXCEPT !.spider_queue = Append(q, <<>>),
                                                !.crawl_finished = TRUE,
                                                !.spider = "stopped"]
                               ELSE dht
                     /\ protocol' = Collected(protocol, crawl)
                ELSE /\ crawl' = F.crawl
                     /\ protocol' = F.protocol
                     /\ dht' = [dht EXCEPT !.spider_queue = q]
    /\ UNCHANGED <<tracker, cfg, cache, pc, outcome, tasks, task, task_registry, handled_peers, hist>>

\* retrieve_torrent cancels the members of task_registry
\* (magnet2torrent.py 161-166); cancel_task is a plain future
CancelHandle ==
    /\ CancelTask \in task_registry /\ dht.cancel_task = "pending"
    /\ dht' = [dht EXCEPT !.cancel_task = "cancelled"]
    /\ UNCHANGED <<crawl, protocol, tracker, cfg, cache, pc, outcome, tasks, task, task_registry,
                   handled_peers, hist>>

\* a lookup of Server.find_peers (kind "peer": width 4 * ksize) or of
\* Server.bootstrap and _refresh_table (kind "node"), with the nodes that
\* find_neighbors or the pings returned; the retrieve call of a peer lookup has
\* the DHT as its only source and waits in its loop
\* KRPCProtocol.is_valid_node_id (protocol.py 126-127), MIN_ID = 0
is_valid_node_id(long_id) == 0 < long_id /\ long_id < MAX_ID

RECURSIVE Xor(_, _)
\* a ^ b
Xor(a, b) ==
    IF a = 0 THEN b ELSE IF b = 0 THEN a
    ELSE ((a + b) % 2) + 2 * Xor(a \div 2, b \div 2)

\* the target a lookup is followed for
LookupTarget == 1

\* Node.long_id of the node at XOR distance n from the target
long_id(n) == Xor(n, LookupTarget)

\* the nodes a routing table that admitted valid ids only can hold
ValidNodes == {n \in NodeIds : is_valid_node_id(long_id(n))}

LookupCfg ==
    [trackers |-> <<>>, use_trackers |-> FALSE, use_additional_trackers |-> FALSE,
     dht_server |-> "ready", torrent_cache_folder |-> FALSE, dn |-> <<>>,
     infohash |-> InfoHash]

InitLookup ==
    /\ tracker = NoTracker
    /\ cfg = LookupCfg
    /\ cache = [exists |-> FALSE, data |-> <<>>]
    /\ outcome = [kind |-> "running", torrent |-> NoTorrent]
    /\ handled_peers = {}
    /\ \E kind \in {"peer", "node"}, k \in 1..MaxK, a \in 1..MaxAlpha, seeds \in SUBSET NodeIds :
        /\ kind = "peer" => seeds # {} /\ seeds \subseteq ValidNodes
        /\ crawl = [NoCrawl EXCEPT !.kind = kind, !.ksize = k, !.alpha = a,
                                   !.nearest = Nearest(seeds, k), !.pos = "new"]
        /\ LET L == IF kind = "peer" THEN StartTasks(cfg)
                    ELSE Local(<< >>, {}, {}, NoDht, NoHist)
           IN  /\ task = L.task /\ tasks = L.tasks /\ dht = L.dht /\ hist = L.hist
               /\ task_registry = L.registry
               /\ pc = IF kind = "peer" THEN "wait" ELSE "start"
        /\ protocol = [NewKRPCProtocol EXCEPT !.router = seeds \cap ValidNodes]

NextLookup ==
    \/ SpiderStart
    \/ CallReturns
    \/ SpiderNodesFound
    \/ DatagramReceived
    \/ HandleResponse
    \/ Timeout
    \/ FoundPeersBatch
    \/ FoundPeersCancelled
    \/ CancelHandle

SpecLookup == InitLookup /\ [][NextLookup]_vars

(************* dht: KRPCProtocol as a server, the query handlers ***********)
MaxTokens == 1
MaxHashes == 1
MaxTime == 3
TokenLen == 16
PeerTtl == 2
PeerAddrs == 1..NumAddrs

\* the address the datagrams of the section come from: one ip, one source port
Sender == [ip |-> 1, port |-> 1]

\* a decoded query datagram: b"y", b"t" (0: none), b"q" and the members of b"a"
Query(t, q, id, target, token, port, implied_port) ==
    [NoQuery EXCEPT !.kind = "dict", !.y = "q", !.t = t, !.q = q, !.id = id,
                    !.target = target, !.token = token, !.port = port,
                    !.implied_port = implied_port]

\* ForgetfulPeerStorage.cull (storage.py 127-141), time in ticks of half the ttl
cull(kr) ==
    [kr EXCEPT !.peer_storage =
        [h \in Ids |-> {e \in @[h] : ~(kr.now - e.birthday >= PeerTtl)}]]

\* ForgetfulPeerStorage.insert_peer (storage.py 120-121)
insert_peer(kr, info_hash, peer) ==
    [kr EXCEPT !.peer_storage[info_hash] =
        {e \in @ : e.peer # peer} \cup {[peer |-> peer, birthday |-> kr.now]}]

\* ForgetfulPeerStorage.get_peers (storage.py 123-125)
get_peers(kr, info_hash) ==
    [kr |-> cull(kr), peers |-> {e.peer : e \in cull(kr).peer_storage[info_hash]}]

\* ForgetfulTokenStorage.get_token (storage.py 102-105): TokenLen random bytes,
\* stored with what they were issued for; tokens are numbered as issued
get_token(kr, sender, id, info_hash) ==
    LET token == [n |-> Cardinality(kr.token_storage) + 1, len |-> TokenLen]
    IN  [kr |-> [kr EXCEPT !.token_storage =
                     @ \cup {[token |-> token, ip |-> sender.ip, id |-> id,
                              info_hash |-> info_hash]}],
         token |-> token]

\* ForgetfulTokenStorage.verify_token (storage.py 107-112). get_token stores the
\* tuple (ip, id, info_hash) where ForgetfulStorage keeps (birthday, value), so
\* the cull of line 108 compares a float with the ip of the oldest token and
\* raises TypeError whenever a token is stored (storage.py 79-89); with no token
\* stored, get(token) is None and the answer is False.
verify_token(kr, ip, id, info_hash, token) ==
    IF kr.token_storage # {} THEN [ok |-> FALSE, raised |-> "TypeError"]
    ELSE [ok |-> FALSE, raised |-> ""]

\* faulty variant: the sender is welcomed before its id is looked at
rpc_ping_unchecked(kr, sender, id) ==
    [kr |-> welcome_if_new(kr, id), raised |-> "",
     reply |-> IF is_valid_node_id(id) THEN [NoReply EXCEPT !.keys = {"id"}, !.id = id]
               ELSE NoReply]

\* KRPCProtocol.rpc_ping (protocol.py 129-134)
rpc_ping(kr, sender, id) ==
    IF ~is_valid_node_id(id) THEN [kr |-> kr, reply |-> NoReply, raised |-> ""]
    ELSE [kr |-> welcome_if_new(kr, id), raised |-> "",
          reply |-> [NoReply EXCEPT !.keys = {"id"}, !.id = id]]

\* KRPCProtocol.rpc_announce_peer (protocol.py 136-163): line 160 calls
\* insert_peer(info_hash, peer) with the peer alone, a TypeError
rpc_announce_peer(kr, sender, id, info_hash, port, token, implied_port) ==
    IF ~is_valid_node_id(id) THEN [kr |-> kr, reply |-> NoReply, raised |-> ""]
    ELSE LET k1 == welcome_if_new(kr, id)
             V == verify_token(k1, sender.ip, id, info_hash, token)
         IN  IF V.raised # "" THEN [kr |-> k1, reply |-> NoReply, raised |-> V.raised]
             ELSE IF V.ok THEN [kr |-> k1, reply |-> NoReply, raised |-> "TypeError"]
             ELSE [kr |-> k1, raised |-> "",
                   reply |-> [NoReply EXCEPT !.keys = {"id"}, !.id = id]]

\* KRPCProtocol.rpc_find_node (protocol.py 165-179); `if token` is false for
\* None and for a token of no bytes. The
\* nodes are the neighbours the router holds, the sender left out.
rpc_find_node(kr, sender, id, target, token) ==
    IF ~is_valid_node_id(id) THEN [kr |-> kr, reply |-> NoReply, raised |-> ""]
    ELSE LET k1 == welcome_if_new(kr, id)
         IN  IF ~is_valid_node_id(target) THEN [kr |-> k1, reply |-> NoReply, raised |-> ""]
             ELSE [kr |-> k1, raised |-> "",
                   reply |-> [keys |-> {"id", "nodes"} \cup (IF token.len # 0 THEN {"token"} ELSE {}),
                              id |-> id, token |-> token,
                              nodes |-> k1.router \ {id}, values |-> {}]]

\* KRPCProtocol.rpc_get_peers (protocol.py 181-200)
rpc_get_peers(kr, sender, id, info_hash) ==
    IF ~is_valid_node_id(id) THEN [kr |-> kr, reply |-> NoReply, raised |-> ""]
    ELSE LET G == get_peers(welcome_if_new(kr, id), info_hash)
             T == get_token(G.kr, sender, id, info_hash)
         IN  IF G.peers = {} THEN rpc_find_node(T.kr, sender, id, info_hash, T.token)
             ELSE [kr |-> T.kr, raised |-> "",
                   reply |-> [keys |-> {"id", "token", "values"}, id |-> id,
                              token |-> T.token, nodes |-> {}, values |-> G.peers]]

\* faulty variant: a reply is sent whatever the handler returned
handle_request_always_replies(kr, d) ==
    [kr EXCEPT !.sent = [keys |-> {"y", "r"}, y |-> "r", t |-> 0, r |-> NoReply]]

\* KRPCProtocol.handle_request (protocol.py 75-94): the handler rpc_<q> is
\* called with the address and the members of b"a"; what it returns, unless
\* None, is sent back in a dict of the keys y and r
handle_request(kr, d) ==
    IF d.q \notin {"ping", "find_node", "get_peers", "announce_peer"} THEN kr
    ELSE LET H == CASE d.q = "ping" -> rpc_ping(kr, Sender, d.id)
                    [] d.q = "find_node" -> rpc_find_node(kr, Sender, d.id, d.target, NoToken)
                    [] d.q = "get_peers" -> rpc_get_peers(kr, Sender, d.id, d.target)
                    [] d.q = "announce_peer" ->
                         rpc_announce_peer(kr, Sender, d.id, d.target, d.port, d.token,
                                           d.implied_port)
         IN  [H.kr EXCEPT
                !.reply = H.reply, !.raised = H.raised,
                !.sent = IF H.raised = "" /\ H.reply # NoReply
                         THEN [keys |-> {"y", "r"}, y |-> "r", t |-> 0, r |-> H.reply]
                         ELSE NoDatagram]

\* KRPCProtocol.datagram_received (protocol.py 45-73) with the handle_request
\* task it starts for a query, which has no await before its end. query,
\* reply, sent and raised describe the last datagram: the datagram, what the
\* handler returned and raised, what sendto was called with.
datagram_received(kr, d) ==
    LET k0 == [kr EXCEPT !.query = d, !.reply = NoReply, !.sent = NoDatagram, !.raised = ""]
    IN  IF d.kind # "dict" \/ d.t = 0 THEN k0
        ELSE IF d.y = "q" THEN (IF d.q = "" THEN k0 ELSE handle_request(k0, d))
        ELSE IF d.y = "r" THEN [k0 EXCEPT !.handlers = Append(@, [t |-> d.t, args |-> Nodes({})])]
        ELSE k0

\* the ids the senders of the queries give: the two bounds of
\* is_valid_node_id and two ids between them
SenderIds == {0, 1, 2, MAX_ID}

\* a ping query is handled
RpcPing ==
    /\ \E id \in SenderIds :
        protocol' = datagram_received(protocol, Query(1, "ping", id, 0, NoToken, 0, FALSE))
    /\ UNCHANGED <<crawl, tracker, cfg, cache, pc, outcome, tasks, task, task_registry,
                   handled_peers, dht, hist>>

\* a get_peers query is handled
RpcGetPeers ==
    /\ Cardinality(protocol.token_storage) < MaxTokens
    /\ \E id \in SenderIds, info_hash \in Ids :
        protocol' = datagram_received(protocol,
                                      Query(1, "get_peers", id, info_hash, NoToken, 0, FALSE))
    /\ UNCHANGED <<crawl, tracker, cfg, cache, pc, outcome, tasks, task, task_registry,
                   handled_peers, dht, hist>>

\* a find_node query is handled
RpcFindNode ==
    /\ \E id \in SenderIds, target \in {0, 1} :
        protocol' = datagram_received(protocol,
                                      Query(1, "find_node", id, target, NoToken, 0, FALSE))
    /\ UNCHANGED <<crawl, tracker, cfg, cache, pc, outcome, tasks, task, task_registry,
                   handled_peers, dht, hist>>

\* an announce_peer query is handled: with a token this node issued or with
\* one it never issued, for the port 2 or the source port
RpcAnnouncePeer ==
    /\ \E id \in SenderIds, info_hash \in {1, 2}, n \in 1..(MaxTokens + 1),
          implied_port \in BOOLEAN :
        protocol' = datagram_received(protocol,
                        Query(1, "announce_peer", id, info_hash,
                              [n |-> n, len |-> TokenLen], 2, implied_port))
    /\ UNCHANGED <<crawl, tracker, cfg, cache, pc, outcome, tasks, task, task_registry,
                   handled_peers, dht, hist>>

\* the datagrams datagram_received and handle_request give up on: bytes that
\* bdecode rejects; a value that is no dict; a query without b"t"; a dict whose
\* b"y" is neither q nor r; a query without b"q"; a query for which the
\* protocol has no rpc_ method
Ignored ==
    {[NoQuery EXCEPT !.kind = "undecodable"], [NoQuery EXCEPT !.kind = "list"],
     Query(0, "ping", 1, 0, NoToken, 0, FALSE),
     [Query(1, "", 1, 0, NoToken, 0, FALSE) EXCEPT !.y = "e"],
     Query(1, "", 1, 0, NoToken, 0, FALSE),
     Query(1, "vote", 1, 0, NoToken, 0, FALSE)}

\* one of them arrives
DatagramIgnored ==
    /\ \E d \in Ignored : protocol' = datagram_received(protocol, d)
    /\ UNCHANGED <<crawl, tracker, cfg, cache, pc, outcome, tasks, task, task_registry,
                   handled_peers, dht, hist>>

\* a response arrives at a node that has no call outstanding; HandleResponse
\* is the task started for it
ResponseReceived ==
    /\ Len(protocol.handlers) < MaxHandlers
    /\ protocol' = datagram_received(protocol, [NoQuery EXCEPT !.kind = "dict", !.y = "r", !.t = 1])
    /\ UNCHANGED <<crawl, tracker, cfg, cache, pc, outcome, tasks, task, task_registry,
                   handled_peers, dht, hist>>

\* a listening Server: no retrieve call, no lookup; the peer storage holds
\* peers for at most MaxHashes info-hashes
InitServer ==
    /\ tracker = NoTracker
    /\ cfg = LookupCfg
    /\ cache = [exists |-> FALSE, data |-> <<>>]
    /\ pc = "start"
    /\ outcome = [kind |-> "running", torrent |-> NoTorrent]
    /\ tasks = {} /\ task = << >> /\ task_registry = {} /\ handled_peers = {}
    /\ dht = NoDht /\ hist = NoHist /\ crawl = NoCrawl
    /\ \E cached \in {x \in SUBSET Ids : Cardinality(x) <= MaxHashes} :
        protocol = [NewKRPCProtocol EXCEPT
                      !.peer_storage = [h \in Ids |->
                          IF h \in cached
                          THEN {[peer |-> p, birthday |-> 0] : p \in PeerAddrs} ELSE {}]]

NextServer ==
    \/ RpcPing
    \/ RpcGetPeers
    \/ RpcFindNode
    \/ RpcAnnouncePeer
    \/ DatagramIgnored
    \/ ResponseReceived
    \/ HandleResponse

SpecServer == InitServer /\ [][NextServer]_vars

(************* dht: ForgetfulPeerStorage used by its owner over time *******)
\* insert_peer(info_hash, peer)
InsertPeer ==
    /\ \E info_hash \in 1..(MaxHashes + 2), peer \in PeerAddrs :
        protocol' = [insert_peer(protocol, info_hash, peer) EXCEPT
                       !.query = [NoQuery EXCEPT !.kind = "call", !.q = "insert_peer",
                                                 !.target = info_hash, !.port = peer],
                       !.reply = NoReply]
    /\ UNCHANGED <<crawl, tracker, cfg, cache, pc, outcome, tasks, task, task_registry,
                   handled_peers, dht, hist>>

\* get_peers(info_hash); reply.values is what it returns
GetPeers ==
    /\ \E info_hash \in 1..(MaxHashes + 2) :
        LET G == get_peers(protocol, info_hash)
        IN  protocol' = [G.kr EXCEPT
                           !.query = [NoQuery EXCEPT !.kind = "call", !.q = "get_peers",
                                                     !.target = info_hash],
                           !.reply = [NoReply EXCEPT !.values = G.peers]]
    /\ UNCHANGED <<crawl, tracker, cfg, cache, pc, outcome, tasks, task, task_registry,
                   handled_peers, dht, hist>>

\* time.monotonic() advances by a tick
Tick ==
    /\ protocol.now < MaxTime
    /\ protocol' = [protocol EXCEPT !.now = @ + 1]
    /\ UNCHANGED <<crawl, tracker, cfg, cache, pc, outcome, tasks, task, task_registry,
                   handled_peers, dht, hist>>

InitStorage ==
    /\ tracker = NoTracker
    /\ cfg = LookupCfg
    /\ cache = [exists |-> FALSE, data |-> <<>>]
    /\ pc = "start"
    /\ outcome = [kind |-> "running", torrent |-> NoTorrent]
    /\ tasks = {} /\ task = << >> /\ task_registry = {} /\ handled_peers = {}
    /\ dht = NoDht /\ hist = NoHist /\ crawl = NoCrawl
    /\ protocol = NewKRPCProtocol

NextStorage == InsertPeer \/ GetPeers \/ Tick

SpecStorage == InitStorage /\ [][NextStorage]_vars

(************* dht: a node that bootstraps while datagrams arrive **********)
InitNode == InitLookup /\ crawl.kind = "node"

NextNode ==
    \/ SpiderStart
    \/ CallReturns
    \/ SpiderNodesFound
    \/ DatagramReceived
    \/ HandleResponse
    \/ Timeout
    \/ DatagramIgnored

SpecNode == InitNode /\ [][NextNode]_vars

(************* udptracker.py and httptracker.py, one task in detail ********)
MaxTx == 2
MaxConn == 2
HttpTries == 5
TxSet == 1..MaxTx
ConnIds == 1..MaxConn

\* the requests of the client: send_connect (udptracker.py 29-31) packs the
\* magic number (0 here), the action 0 and a transaction id; send_announce
\* (33-50) the connection id, the action 1 and a transaction id
Request(action, transaction_id, connection_id) ==
    [action |-> action, transaction_id |-> transaction_id, connection_id |-> connection_id]

\* the datagrams a tracker can send: shorter than 16 bytes; 16 bytes, read as
\* action, transaction id and connection id; 20 bytes and more, read as the
\* announce header and the compact peers
TrackerDatagrams ==
    {[NoTrackerDatagram EXCEPT !.len = "short"]}
        \cup [len : {"connect"}, action : {0, 1}, transaction_id : TxSet,
              connection_id : ConnIds, peers : {<<>>}]
        \cup [len : {"announce"}, action : {0, 1}, transaction_id : TxSet,
              connection_id : {0}, peers : {<<>>, <<1>>}]

\* faulty variant: the first datagram long enough is taken for the result
result_in_any_state(p, d, tx) ==
    IF d.len # "announce" \/ CbDone(p) THEN [p EXCEPT !.datagram = d]
    ELSE [p EXCEPT !.datagram = d, !.cb = "result", !.cbval = d.peers]

\* TrackerUDPProtocol._handle_response (udptracker.py 56-87); tx is the
\* random number get_transaction_id draws for the announce. Neither branch
\* reads the action or the transaction id it unpacks.
udp_handle_response(p, d, tx) ==
    LET p0 == [p EXCEPT !.datagram = d]
    IN  IF p.state = "connect"
        THEN IF d.len # "connect" THEN p0
             ELSE [p0 EXCEPT !.connection_id = d.connection_id,
                             !.state = "announce",
                             !.last_transaction_id = tx,
                             !.sent = Append(@, Request(1, tx, d.connection_id))]
        ELSE IF d.len # "announce" \/ CbDone(p) THEN p0
        ELSE [p0 EXCEPT !.cb = "result", !.cbval = d.peers]

\* retrieve_peers_udp_tracker 93-98: create_datagram_endpoint raises
\* socket.gaierror or OSError
TrackerEndpointFails ==
    /\ tracker.kind = "udp" /\ tracker.pos = "endpoint"
    /\ tracker' = [tracker EXCEPT !.pos = "done", !.res = ZeroPeers, !.cause = "gaierror"]
    /\ UNCHANGED <<cfg, cache, pc, outcome, tasks, task, task_registry, handled_peers,
                   dht, hist, crawl, protocol>>

\* 94-102: the endpoint opens; connection_made (25-31) sends the connect
\* request; cb is put in task_registry and awaited for 12 s
TrackerConnectionMade ==
    /\ tracker.kind = "udp" /\ tracker.pos = "endpoint"
    /\ \E tx \in TxSet :
        tracker' = [tracker EXCEPT !.pos = "wait", !.state = "connect", !.cb = "pending",
                                   !.last_transaction_id = tx,
                                   !.sent = <<Request(0, tx, 0)>>]
    /\ task_registry' = task_registry \cup {CbOf(UdpId(1))}
    /\ UNCHANGED <<cfg, cache, pc, outcome, tasks, task, handled_peers,
                   dht, hist, crawl, protocol>>

\* datagram_received (52-54) and the _handle_response task it starts; the
\* endpoint stays open after a timeout
TrackerDatagram ==
    /\ tracker.kind = "udp" /\ tracker.pos \in {"wait", "done"}
    /\ tracker.state # "" /\ ~tracker.closed
    /\ \E d \in TrackerDatagrams, tx \in TxSet :
        tracker' = udp_handle_response(tracker, d, tx)
    /\ UNCHANGED <<cfg, cache, pc, outcome, tasks, task, task_registry, handled_peers,
                   dht, hist, crawl, protocol>>

\* 102-103, 108-109: wait_for returns the result of cb
TrackerReturn ==
    /\ tracker.kind = "udp" /\ tracker.pos = "wait" /\ tracker.cb = "result"
    /\ tracker' = [tracker EXCEPT !.pos = "done", !.res = TrackerResult(tracker.cbval, FALSE)]
    /\ task_registry' = task_registry \ {CbOf(UdpId(1))}
    /\ UNCHANGED <<cfg, cache, pc, outcome, tasks, task, handled_peers,
                   dht, hist, crawl, protocol>>

\* faulty variant: the TimeoutError of wait_for is not caught
timeout_raises(p) ==
    [p EXCEPT !.pos = "done", !.cb = "cancelled", !.cause = "timeout",
              !.res = Raised("TimeoutError")]

\* 104-105: wait_for cancels cb after 12 s and raises TimeoutError
udp_timeout(p) ==
    [p EXCEPT !.pos = "done", !.cb = "cancelled", !.cause = "timeout", !.res = ZeroPeers]

TrackerTimeout ==
    /\ tracker.kind = "udp" /\ tracker.pos = "wait" /\ tracker.cb = "pending"
    /\ tracker' = udp_timeout(tracker)
    /\ UNCHANGED <<cfg, cache, pc, outcome, tasks, task, task_registry, handled_peers,
                   dht, hist, crawl, protocol>>

\* the task is cancelled: in create_datagram_endpoint CancelledError ends the
\* task; in wait_for (106-107) the endpoint is closed and None is returned
TrackerCancelled ==
    /\ tracker.kind = "udp" /\ tracker.pos \in {"endpoint", "wait"}
    /\ tracker' = IF tracker.pos = "endpoint"
                  THEN [tracker EXCEPT !.pos = "done", !.res = Raised("CancelledError")]
                  ELSE [tracker EXCEPT !.pos = "done", !.closed = TRUE, !.res = None,
                                       !.cb = IF @ = "pending" THEN "cancelled" ELSE @]
    /\ UNCHANGED <<cfg, cache, pc, outcome, tasks, task, task_registry, handled_peers,
                   dht, hist, crawl, protocol>>

\* what one pass of the loop of retrieve_peers_http_tracker (httptracker.py
\* 23-49) can meet: the three exceptions of lines 34-38; a response whose
\* status is not 200; any other exception, of the request or of bdecode; a
\* decoded response with a failure reason, with peers, complete and incomplete,
\* or without them
HttpOutcomes ==
    {"TimeoutError", "ClientConnectorError", "CancelledError", "status", "Exception",
     "failure reason", "peers", "no peers key"}

\* retrieve_peers_http_tracker (httptracker.py 14-71), one pass of its loop
\* and what follows the loop
http_attempt(p, o) ==
    CASE o \in {"TimeoutError", "ClientConnectorError", "CancelledError", "status"} ->
            [p EXCEPT !.pos = "done", !.res = ZeroPeers,
                      !.cause = IF o = "CancelledError" THEN @ ELSE o]
      [] o = "Exception" ->
            IF p.tries > 1 THEN [p EXCEPT !.tries = @ - 1]
            ELSE [p EXCEPT !.tries = 0, !.pos = "done", !.res = ZeroPeers]
      [] o = "failure reason" ->
            [p EXCEPT !.pos = "done", !.res = ZeroPeers, !.cause = o]
      [] o = "peers" -> [p EXCEPT !.pos = "done", !.res = TrackerResult(<<1>>, FALSE)]
      [] OTHER -> [p EXCEPT !.pos = "done", !.res = Raised("KeyError")]

HttpAttempt ==
    /\ tracker.kind = "http" /\ tracker.pos = "request"
    /\ \E o \in HttpOutcomes : tracker' = http_attempt(tracker, o)
    /\ UNCHANGED <<cfg, cache, pc, outcome, tasks, task, task_registry, handled_peers,
                   dht, hist, crawl, protocol>>

\* a tracker task of either kind, just started
InitTracker ==
    /\ cfg = LookupCfg
    /\ cache = [exists |-> FALSE, data |-> <<>>]
    /\ pc = "wait"
    /\ outcome = [kind |-> "running", torrent |-> NoTorrent]
    /\ tasks = {} /\ task = << >> /\ task_registry = {} /\ handled_peers = {}
    /\ dht = NoDht /\ hist = NoHist /\ crawl = NoCrawl /\ protocol = NewKRPCProtocol
    /\ tracker \in {[NoTracker EXCEPT !.kind = "udp", !.pos = "endpoint"],
                    [NoTracker EXCEPT !.kind = "http", !.pos = "request",
                                      !.tries = HttpTries]}

NextTracker ==
    \/ TrackerEndpointFails
    \/ TrackerConnectionMade
    \/ TrackerDatagram
    \/ TrackerReturn
    \/ TrackerTimeout
    \/ TrackerCancelled
    \/ HttpAttempt

SpecTracker == InitTracker /\ [][NextTracker]_vars

(******************** server.py: a retrieve call cancelled from outside *****)
\* magnet2torrent.py 140-141: the task that runs retrieve_torrent is cancelled
\* while it awaits asyncio.wait (server.py 34-35: the handler of a request whose
\* client went away). asyncio.wait leaves the tasks it waits for as they are,
\* and retrieve_torrent catches nothing: CancelledError leaves the call.
RetrieveCancelled ==
    /\ pc = "wait"
    /\ pc' = "raised"
    /\ outcome' = [kind |-> "CancelledError", torrent |-> NoTorrent]
    /\ UNCHANGED <<crawl, protocol, tracker, cfg, cache, tasks, task, task_registry, handled_peers, dht, hist>>

\* the calls of the serve endpoint followed: magnets with udp trackers, no
\* cache file
InitServe ==
    /\ Init
    /\ cfg.use_trackers /\ trackers(cfg) # <<>> /\ cfg.dht_server = "none"
    /\ \A i \in 1..Len(trackers(cfg)) : trackers(cfg)[i].scheme = "udp"
    /\ ~cache.exists /\ ~cfg.torrent_cache_folder

NextServe ==
    \/ Start
    \/ WaitReturn
    \/ UdpTracker
    \/ Peer
    \/ RetrieveCancelled

SpecServe == InitServe /\ [][NextServe]_vars

(******************** dht: the refresh of the routing table ****************)
RECURSIVE SplitBuckets(_, _, _, _)
\* the ranges of a routing table that split d times the bucket holding the
\* node's own id: half-open ranges [lo, hi) that partition [0, MAX_ID), split at
\* the midpoint
SplitBuckets(lo, hi, own, d) ==
    IF d = 0 \/ hi - lo <= 1 THEN <<[lo |-> lo, hi |-> hi]>>
    ELSE LET mid == (lo + hi) \div 2
         IN  IF own < mid
             THEN SplitBuckets(lo, mid, own, d - 1) \o <<[lo |-> mid, hi |-> hi]>>
             ELSE <<[lo |-> lo, hi |-> mid]>> \o SplitBuckets(mid, hi, own, d - 1)

\* the routing tables of a node, with any of the buckets lonely
RoutingTables ==
    {[i \in DOMAIN bs |-> [range |-> bs[i], lonely |-> i \in L]] :
        bs \in {SplitBuckets(0, MAX_ID, own, d) : own \in 1..(MAX_ID - 1), d \in 0..IdBits},
        L \in SUBSET (1..(IdBits + 1))}

\* router.lonely_buckets(): the indices of the lonely buckets, in table order
lonely_buckets(kr) == {i \in DOMAIN kr.buckets : kr.buckets[i].lonely}

\* the values random.randint(a, b) can return: a <= N <= b
randint(a, b) == a..b

\* int.to_bytes(20, byteorder="big") raises OverflowError from 2^160 on
to_bytes_raises(n) == n >= MAX_ID

\* get_refresh_ids with pick[i] the value random.randint returns for bucket i:
\* the ids are collected bucket after bucket until to_bytes raises
get_refresh_ids(kr, pick) ==
    LET lonely == lonely_buckets(kr)
        fails == {i \in lonely : to_bytes_raises(pick[i])}
        last == IF fails = {} THEN Len(kr.buckets) ELSE CHOOSE i \in fails : \A j \in fails : i <= j
        seq == [i \in 1..Len(kr.buckets) |->
                  IF i \in lonely /\ i <= last
                  THEN <<[bucket |-> i, rid |-> pick[i]]>> ELSE <<>>]
    IN  [kr EXCEPT !.chosen = Flatten(seq),
                   !.raised = IF fails = {} THEN "" ELSE "OverflowError"]

\* network.py 97-112, _refresh_table: get_refresh_ids, then one NodeSpiderCrawl
\* per id; an exception of get_refresh_ids ends the task
RefreshTable ==
    /\ \E pick \in [lonely_buckets(protocol) -> Ids] :
        /\ \A i \in lonely_buckets(protocol) :
              pick[i] \in randint(protocol.buckets[i].range.lo, protocol.buckets[i].range.hi)
        /\ protocol' = get_refresh_ids(protocol, pick)
    /\ UNCHANGED <<cfg, cache, pc, outcome, tasks, task, task_registry, handled_peers, dht, hist, crawl, tracker>>

\* a bucket is touched by a lookup, or an hour passes without one
BucketAges ==
    /\ \E i \in DOMAIN protocol.buckets :
        protocol' = [protocol EXCEPT !.buckets[i].lonely = ~@]
    /\ UNCHANGED <<cfg, cache, pc, outcome, tasks, task, task_registry, handled_peers, dht, hist, crawl, tracker>>

InitRefresh ==
    /\ tracker = NoTracker
    /\ cfg = LookupCfg
    /\ cache = [exists |-> FALSE, data |-> <<>>]
    /\ pc = "start"
    /\ outcome = [kind |-> "running", torrent |-> NoTorrent]
    /\ tasks = {} /\ task = << >> /\ task_registry = {} /\ handled_peers = {}
    /\ dht = NoDht /\ hist = NoHist /\ crawl = NoCrawl
    /\ \E bs \in RoutingTables : protocol = [NewKRPCProtocol EXCEPT !.buckets = bs]

NextRefresh == RefreshTable \/ BucketAges

SpecRefresh == InitRefresh /\ [][NextRefresh]_vars

(******************** peer.py: one connection, segment by segment **********)
\* the frames one data_received call finds in the buffer, and the requests a
\* connection is followed for
MaxFrames == 2
MaxRequests == 3

\* the peer task followed
ThePeer == PeerId(1, 1)

\* the buffers data_received is called with
PeerSegments == SeqsUpTo(Frames, MaxFrames) \ {<<>>}

\* BittorrentTCPProtocol.data_received: the bytes that arrive hold the frames fs.
\* The event loop calls it as long as the transport is open; a cancelled task
\* is woken before the next I/O event.
PeerSegment(id) ==
    /\ task[id].pos = "fetching" /\ ~task[id].cancel /\ ~task[id].proto.closed
    /\ Len(task[id].proto.requested) < MaxRequests
    /\ \E fs \in PeerSegments :
        task' = [task EXCEPT ![id].proto = data_received(@, fs, InfoHash)]
    /\ UNCHANGED <<crawl, protocol, tracker, cfg, cache, pc, outcome, tasks, task_registry, handled_peers, dht, hist>>

\* magnet2torrent.py 162-164 reaching this task: its cancel() is called and the
\* futures it left in task_registry are cancelled
PeerCancel(id) ==
    /\ ~Done(task[id]) /\ ~task[id].cancel
    /\ LET L == [Local(task, tasks, handled_peers, dht, hist) EXCEPT !.registry = task_registry]
       IN  task' = CancelAll(L).task
    /\ UNCHANGED <<crawl, protocol, tracker, cfg, cache, pc, outcome, tasks, task_registry, handled_peers, dht, hist>>

\* fetch_from_peer has been started for one peer
InitPeer ==
    /\ cfg = LookupCfg
    /\ cache = [exists |-> FALSE, data |-> <<>>]
    /\ pc = "wait"
    /\ outcome = [kind |-> "running", torrent |-> NoTorrent]
    /\ tasks = {ThePeer}
    /\ task = (ThePeer :> NewTask("peer", 1, "new"))
    /\ task_registry = {} /\ handled_peers = {1}
    /\ dht = NoDht /\ hist = NoHist /\ crawl = NoCrawl /\ protocol = NewKRPCProtocol
    /\ tracker = NoTracker

NextPeer ==
    \/ PeerStart(ThePeer)
    \/ PeerConnected(ThePeer)
    \/ PeerConnectFails(ThePeer)
    \/ PeerSegment(ThePeer)
    \/ PeerConnectionLost(ThePeer)
    \/ PeerReturn(ThePeer)
    \/ PeerTimeout(ThePeer)
    \/ PeerCancel(ThePeer)
    \/ PeerCancelled(ThePeer)

SpecPeer == InitPeer /\ [][NextPeer]_vars

(***************************** properties **********************************)
\* the call returned through the winning path of lines 161-169
Won == pc = "returned" /\ hist.winner # NoId

\* the peer task id has finished with non-empty bytes
BytesDone(id) ==
    /\ id \in DOMAIN task
    /\ task[id].kind = "peer" /\ Done(task[id])
    /\ ~task[id].res.none /\ task[id].res.data # <<>>

\* C1: No unverified metadata reaches the output. In every reachable state the
\* non-empty bytes of a completion future, the non-empty bytes a peer task
\* returns to the orchestrator, and on the winning path the bytes written to the
\* cache and wrapped in the returned torrent, have SHA-1 equal to the info-hash of
\* the magnet, whatever the remote peer sent.
C1_VerifiedBytesOnly ==
    /\ \A id \in DOMAIN task :
        /\ task[id].kind = "peer" /\ ~Done(task[id]) /\ task[id].proto.cb = "bytes"
              => Sha1(task[id].proto.cbval) = cfg.infohash
        /\ BytesDone(id) => Sha1(task[id].res.data) = cfg.infohash
    /\ Won =>
        /\ Sha1(outcome.torrent.info) = cfg.infohash
        /\ cfg.torrent_cache_folder => cache.exists /\ Sha1(cache.data) = cfg.infohash

\* C1 witness: the call has returned the bytes of a winner and written them to
\* the cache while another peer had delivered metadata with a wrong digest
C1_Witness ==
    /\ Won /\ cfg.torrent_cache_folder /\ BytesDone(hist.winner)
    /\ \E id \in DOMAIN task : task[id].kind = "peer" /\ task[id].proto.wrong_infohash

\* C2: Within one retrieve call at most one peer task is ever spawned for a peer
\* address, however many trackers and DHT batches report it and in whatever
\* order their results arrive; later duplicates are dropped.
C2_OnePeerTaskPerAddress ==
    \A a \in Addrs :
        /\ hist.spawned[a] <= 1
        /\ Cardinality({id \in DOMAIN task : task[id].kind = "peer" /\ task[id].key = a}) <= 1
        /\ (\E src \in {"udp", "dht"} : <<a, src>> \in hist.dropped)
              => a \in handled_peers /\ hist.spawned[a] = 1

\* C2 witness: an address whose peer task was spawned for a tracker's reply was
\* reported again by the DHT, and the duplicate was dropped
C2_Witness ==
    \E a \in Addrs :
        hist.source[a] = "udp" /\ <<a, "dht">> \in hist.dropped /\ hist.spawned[a] = 1

\* C3: When a peer task's verified result is accepted, then before retrieve
\* returns the orchestrator has requested cancellation of every task of its task
\* set that has not finished (trackers, the DHT continuation, other peers, also
\* the peer tasks spawned earlier in the same completion batch) and of every
\* future of task_registry that has not finished.
C3_WinCancelsEverything ==
    Won =>
        /\ \A id \in tasks : Done(task[id]) \/ task[id].cancel
        /\ \A f \in task_registry : FutureDone(task, dht, f)

\* C3 witness: the call has won; a peer task spawned in the same completion batch
\* was cancelled before its first step, and a registered future was cancelled
C3_Witness ==
    /\ Won
    /\ \E id \in tasks : task[id].kind = "peer" /\ task[id].pos = "new" /\ task[id].cancel
    /\ \E id \in tasks : CbOf(id) \in task_registry /\ task[id].proto.cb = "cancelled"
    /\ CancelTask \in task_registry /\ dht.cancel_task = "cancelled"

\* the call has no tracker to try and no DHT server
NoSources(c) ==
    /\ ~c.use_trackers \/ trackers(c) = <<>>
    /\ c.dht_server = "none"

\* C4: retrieve raises FailedToFetch only in a state where its task set is empty
\* (every tracker, DHT and peer task spawned for the call has completed) and no
\* peer task returned verified metadata; conversely it never waits on a drained
\* task set but raises FailedToFetch; and with no trackers and no DHT it raises
\* FailedToFetch without spawning any task.
C4_FailedToFetchIffDrained ==
    /\ pc = "failed" =>
        /\ outcome.kind = "FailedToFetchException"
        /\ tasks = {}
        /\ \A id \in DOMAIN task : Done(task[id]) /\ ~BytesDone(id)
        /\ hist.winner = NoId
    /\ pc = "wait" => tasks # {}
    /\ NoSources(cfg) /\ pc # "start" /\ ~(cfg.torrent_cache_folder /\ cache.exists) =>
        /\ pc = "failed"
        /\ task = << >> /\ hist.gets = 0 /\ \A a \in Addrs : hist.spawned[a] = 0

\* C4 witness: FailedToFetch was raised after a peer task had been spawned and
\* every source had been tried
C4_Witness ==
    /\ pc = "failed"
    /\ \E a \in Addrs : hist.spawned[a] = 1
    /\ hist.gets >= 1

\* C5, in every state: once a peer task has completed with non-empty bytes the
\* call is waiting with that task in its task set, or has returned the torrent
\* built from the bytes of the winner; it has not raised.
C5_Inv ==
    (\E id \in DOMAIN task : BytesDone(id)) =>
        /\ pc \in {"wait", "returned"}
        /\ pc = "wait" => \A id \in DOMAIN task : BytesDone(id) => id \in tasks
        /\ pc = "returned" =>
            /\ BytesDone(hist.winner)
            /\ outcome = [kind |-> "returned",
                          torrent |-> create_torrent(cfg, task[hist.winner].res.data)]
            /\ outcome.torrent.filename = Append(name(cfg), ".torrent")

\* C5, in every step: when the orchestrator wakes with such a task among the
\* finished ones it returns, whatever else is pending or has failed
C5_Step ==
    pc = "wait" /\ (\E id \in tasks : BytesDone(id)) /\ (pc' # pc \/ tasks' # tasks) =>
        /\ pc' = "returned"
        /\ hist'.winner \in tasks /\ BytesDone(hist'.winner)

\* C5: If any peer task of a retrieve call completes with non-empty (verified)
\* bytes, the call returns (name + ".torrent", envelope) built from the bytes of
\* the first such result it processes and never raises FailedToFetch, however
\* many tracker, DHT or peer tasks are still pending or have failed.
C5_FirstVerifiedPeerWins == []C5_Inv /\ [][C5_Step]_vars

\* C5 witness: the call has returned the bytes of one peer while a tracker task
\* was still pending and another peer task had failed
C5_Witness ==
    /\ Won
    /\ \E id \in tasks : task[id].kind # "peer" /\ ~Done(task[id])
    /\ \E id \in DOMAIN task : task[id].kind = "peer" /\ Done(task[id]) /\ task[id].res.none

\* C6 (fails): For a magnet with a valid info-hash retrieve ends only by
\* returning (filename, bytes) or by raising FailedToFetch; no tracker makes it
\* raise any other error.
C6_ReturnsOrFailedToFetch ==
    outcome.kind \in {"running", "returned", "FailedToFetchException"}

\* C7 (fails): When the magnet lists one HTTP tracker, and nothing is cached,
\* retrieve starts the tracker task and goes on to wait for it: it does not end
\* before any task has run.
C7_HttpTrackerTaskStarted ==
    /\ cfg.use_trackers /\ trackers(cfg) = <<Url("http", 1)>>
    /\ ~(cfg.torrent_cache_folder /\ cache.exists)
    /\ pc # "start"
    => \/ pc = "wait" /\ tasks # {}
       \/ hist.gets + hist.reports > 0

\* C8 (fails): When retrieve returns through the winning path task_registry is
\* empty: every future a child registered has been removed from it.
C8_RegistryEmptyAtReturn == Won => task_registry = {}

\* the peer task id has delivered metadata of the announced size with a wrong digest
WrongInfohash(id) ==
    /\ id \in DOMAIN task
    /\ task[id].kind = "peer" /\ task[id].proto.wrong_infohash

\* C9, in every state: the metadata is discarded, the completion future holds
\* None and the task returns None; the call has not raised an error
C9_Inv ==
    \A id \in DOMAIN task : WrongInfohash(id) =>
        /\ task[id].proto.cb = "none" /\ task[id].proto.cbval = <<>>
        /\ task[id].proto.torrent_data = <<>> /\ task[id].proto.closed
        /\ Done(task[id]) => task[id].res = None
        /\ ~BytesDone(id) /\ hist.winner # id
        /\ pc # "raised"

\* C9, in every step: when the orchestrator handles the result of such a task it
\* goes on with the remaining tasks: it returns the bytes of another peer that
\* finished with it, or waits for the tasks that remain, or raises FailedToFetch
\* if none remain
C9_Step ==
    \A id \in tasks :
        WrongInfohash(id) /\ Done(task[id]) /\ pc = "wait" /\ id \notin DOMAIN task' =>
            /\ pc' \in {"wait", "failed", "returned"}
            /\ pc' = "returned" => hist'.winner \in tasks \ {id} /\ BytesDone(hist'.winner)
            /\ pc' = "wait" => tasks' # {} /\ tasks' \subseteq DOMAIN task'
            /\ pc' # "returned" => (pc' = "failed" <=> tasks' = {})

\* C9: When a peer delivers metadata of the announced size whose SHA-1 differs
\* from the info-hash, the collected metadata is discarded and that peer task
\* completes with an empty result; the orchestrator goes on with the remaining
\* tasks, and raises FailedToFetch if none remain.
C9_WrongDigestDiscarded == []C9_Inv /\ [][C9_Step]_vars

\* C9 witness: FailedToFetch has been raised right after the result of a peer
\* that delivered metadata with a wrong digest was handled; witnessed in the
\* state before, where that task is the only one left
C9_Witness ==
    /\ pc = "wait"
    /\ \E id \in tasks : tasks = {id} /\ WrongInfohash(id) /\ Done(task[id])

\* C10, in every state: after a cache hit no task exists and the torrent wraps
\* the cached bytes; after a win with a cache folder the cache file holds the
\* winner's bytes, written once; nothing else has written the cache
C10_Inv ==
    /\ pc = "returned" /\ hist.winner = NoId =>
        /\ cfg.torrent_cache_folder /\ cache.exists /\ hist.writes = 0
        /\ outcome = [kind |-> "returned", torrent |-> create_torrent(cfg, cache.data)]
        /\ task = << >> /\ tasks = {} /\ hist.gets = 0
        /\ \A a \in Addrs : hist.spawned[a] = 0
    /\ Won /\ cfg.torrent_cache_folder =>
        /\ cache = [exists |-> TRUE, data |-> task[hist.winner].res.data]
        /\ hist.writes = 1
    /\ ~Won => hist.writes = 0

\* C10, in every step: with the cache file present the call returns at once; the
\* cache changes only in the step that returns through the winning path
C10_Step ==
    /\ pc = "start" /\ cfg.torrent_cache_folder /\ cache.exists =>
        pc' = "returned" /\ task' = << >> /\ cache' = cache
    /\ cache' # cache \/ hist'.writes # hist.writes =>
        pc = "wait" /\ pc' = "returned" /\ hist'.winner # NoId /\ cfg.torrent_cache_folder

\* C10: When a cache folder is configured and the cache file of the info-hash
\* exists, retrieve returns the envelope of the cached bytes without spawning any
\* tracker, DHT or peer task; on the winning path the verified bytes are written
\* to that path before retrieve returns; the cache is written on no other path
\* (not on FailedToFetch, not on a cache hit).
C10_CacheHitAndWrite == []C10_Inv /\ [][C10_Step]_vars

\* C10 witness: the cache file existed, and the call has returned the torrent of
\* the cached bytes, which no peer verified
C10_Witness ==
    /\ pc = "returned" /\ hist.winner = NoId /\ cache.data = BadInfo
    /\ outcome.torrent.info = BadInfo

\* C10, the winning path reached: a call with a cache folder and no cache file has
\* won and written the cache file
C10_WriteWitness == Won /\ cfg.torrent_cache_folder /\ cache.exists /\ hist.writes = 1
\* C11: an invocation of find_peers emits exactly one batch without a
\* continuation: never a second one; exactly one once found_peers has left its
\* loop (the crawl finished, cancel_task was cancelled, or both) and in the
\* invocation without neighbours; it is the last item of the stream; and
\* found_peers, waiting after the crawl finished, has an item to wake it
C11_OneTerminalBatch ==
    /\ dht.terminals <= 1
    /\ dht.found_peers = "done" => dht.terminals = 1
    /\ dht.found_peers = "wait" => dht.terminals = 0
    /\ DhtId(0) \in DOMAIN task =>
          dht.terminals = 1 /\ task[DhtId(0)].res = TrackerResult(<<>>, FALSE)
    /\ \A i \in DOMAIN dht.result_queue :
          ~dht.result_queue[i].next => i = Len(dht.result_queue)
    /\ dht.found_peers = "wait" /\ dht.crawl_finished => dht.spider_queue # <<>>

\* found_peers has left its loop with the crawl finished and cancel_task
\* cancelled, and one terminal batch was emitted
C11_Witness ==
    /\ dht.found_peers = "done" /\ dht.crawl_finished
    /\ dht.cancel_task = "cancelled" /\ dht.terminals = 1

\* the calls of the lookup that are in flight
InFlight == Cardinality(protocol.outstanding)

\* C12 as stated: at most alpha calls of a lookup are in flight at any moment
C12_AtMostAlphaInFlight == crawl.pos # "none" => InFlight <= crawl.alpha

C12_Inv ==
    crawl.pos # "none" =>
        \/ InFlight <= crawl.alpha
        \/ InFlight <= Cardinality(crawl.nearest) /\ Cardinality(crawl.nearest) <= crawl.ksize

\* a round is dispatched: more than alpha calls only if the nearest set is the
\* one the round before was dispatched from
C12_Step ==
    crawl'.calls # crawl.calls =>
        \/ Cardinality(protocol'.outstanding) <= crawl.alpha
        \/ crawl'.last_ids_crawled = crawl.last_ids_crawled

\* C12 (amended): at most alpha calls of a lookup are in flight in every round
\* dispatched after the nearest set changed; the round dispatched after the
\* nearest set did not change calls every uncontacted node of the heap, so at
\* most k calls are in flight then
C12_AlphaUnlessNearestUnchanged == []C12_Inv /\ [][C12_Step]_vars

\* a round dispatched after the nearest set did not change has more than alpha
\* calls in flight
C12_Witness == crawl.pos = "gather" /\ InFlight > crawl.alpha /\ InFlight <= crawl.ksize

\* the lookup has stopped: _nodes_found returned without another find(), or an
\* exception ended the task
Stopped == crawl.pos \in {"returned", "raised"}

\* C13: a lookup stops only with every node of its heap marked contacted and
\* none of its calls in flight, or with its cancel flag set
C13_StopsOnlyWhenAllContacted ==
    Stopped =>
        \/ crawl.nearest \subseteq crawl.contacted /\ InFlight = 0
        \/ crawl.kind = "peer" /\ dht.cancel_crawl

\* C17: find_peers is never left with its spider ended, every call resolved,
\* nothing queued, and found_peers waiting for an item that will not come: a
\* state from which the terminal batch is emitted only if the retrieve call,
\* which has no other source, cancels the lookup
C17_TerminalBatchComes ==
    ~(/\ crawl.kind = "peer" /\ Stopped /\ ~dht.crawl_finished
      /\ InFlight = 0 /\ protocol.handlers = <<>>
      /\ dht.found_peers = "wait" /\ dht.spider_queue = <<>>
      /\ dht.cancel_task = "pending" /\ dht.terminals = 0)

\* C18: once found_peers has taken the cancellation of its handle, no call of
\* the spider is outstanding any more
C18_CancelAbortsCalls == dht.cancel_crawl => InFlight = 0

\* C19: every entry of the outstanding map has its timer scheduled, and a call
\* that is no longer (or not yet) in the map has no timer scheduled; no timer
\* finds its entry missing
C19_OneTimerPerEntry ==
    /\ \A t \in TxIds : t \in protocol.outstanding <=> protocol.timeout[t] = "scheduled"
    /\ \A t \in TxIds : protocol.future[t].state = "pending" <=> t \in protocol.outstanding
    /\ protocol.error = ""

\* a call resolved by its response: not in the map, its timer cancelled
C19_Witness ==
    \E t \in TxIds :
        /\ protocol.future[t].state = "done" /\ protocol.future[t].ok
        /\ t \notin protocol.outstanding /\ protocol.timeout[t] = "cancelled"

C20_Inv ==
    /\ protocol.error = ""
    /\ \A t \in TxIds :
          protocol.sets[t] = IF protocol.future[t].state \in {"done", "collected"} THEN 1 ELSE 0

\* a pending future is resolved by the handle_response task of a response with
\* its transaction id, with (True, args), or by its timer, with (False, None);
\* a resolved future keeps its result until it is dropped
C20_Step ==
    \A t \in TxIds :
        /\ protocol.future[t].state = "pending" /\ protocol'.future[t].state # "pending" =>
              IF protocol'.timeout[t] = "fired"
              THEN protocol'.future[t] = Result(FALSE, Nodes({}))
              ELSE /\ protocol.handlers # <<>> /\ Head(protocol.handlers).t = t
                   /\ protocol'.handlers = Tail(protocol.handlers)
                   /\ protocol'.timeout[t] = "cancelled"
                   /\ protocol'.future[t] = Result(TRUE, Head(protocol.handlers).args)
        /\ protocol.future[t].state = "done" =>
              /\ protocol'.future[t] = protocol.future[t]
                    \/ protocol'.future[t].state = "collected"
              /\ protocol'.sets[t] = protocol.sets[t]

\* C20: the future of a call is resolved exactly once, by the first of its
\* response being handled and its timer firing; later responses and the
\* cancelled timer change nothing and raise nothing
C20_ResolvedExactlyOnce == []C20_Inv /\ [][C20_Step]_vars

\* a response for a call that its timer has resolved waits to be handled
C20_Witness ==
    \E t \in TxIds :
        /\ protocol.future[t] = Result(FALSE, Nodes({})) /\ protocol.timeout[t] = "fired"
        /\ protocol.handlers # <<>> /\ Head(protocol.handlers).t = t

\* C15: when found_peers has ended without a cancellation, no batch of peers
\* that the spider put on its queue is left there undelivered
C15_EveryBatchDelivered ==
    dht.found_peers = "done" /\ dht.cancel_task = "pending" =>
        \A i \in DOMAIN dht.spider_queue : dht.spider_queue[i] = <<>>

\* the tasks of the DHT stream that retrieve_torrent has not handled yet
DhtTasks == {id \in DOMAIN task : task[id].kind = "dht"}

C16_Inv ==
    /\ \A i \in DOMAIN dht.result_queue :
          LET item == dht.result_queue[i]
          IN  /\ item.peers # <<>> => item.next
              /\ ~item.next => item = TerminalBatch /\ i = Len(dht.result_queue)
    /\ Cardinality(DhtTasks) <= 1
    /\ \A id \in DhtTasks : task[id].task_type = "tracker"

\* nothing is put after the terminal batch; a get takes the oldest item; the
\* result of a DHT task that retrieve_torrent handles starts the next get
\* exactly if it carries a continuation
C16_Step ==
    /\ dht.terminals = 1 => Len(dht'.result_queue) <= Len(dht.result_queue)
    /\ \A id \in DhtTasks :
          /\ ~Done(task[id]) /\ id \in DOMAIN task' /\ Done(task'[id]) /\ task'[id].res.exc = "" =>
                /\ dht.result_queue # <<>>
                /\ task'[id].res = TrackerResult(Head(dht.result_queue).peers,
                                                 Head(dht.result_queue).next)
                /\ dht'.result_queue = Tail(dht.result_queue)
          /\ id \notin DOMAIN task' =>
                IF task[id].res.next
                THEN /\ hist'.gets = hist.gets + 1
                     /\ DhtTasks' = {DhtId(hist'.gets)}
                     /\ task'[DhtId(hist'.gets)].pos = "get"
                ELSE hist'.gets = hist.gets /\ DhtTasks' = {}

\* C16: on the stream of find_peers every item but the terminal one carries a
\* continuation, the terminal one is last and nothing follows it;
\* retrieve_torrent starts the continuation of each item it handles as a task
\* tagged "tracker", one at a time, so the items are taken in the order emitted
C16_StreamConsumedInOrder == []C16_Inv /\ [][C16_Step]_vars

\* the second get of the stream has returned the terminal batch
C16_Witness ==
    /\ DhtId(2) \in DhtTasks /\ Done(task[DhtId(2)])
    /\ task[DhtId(2)].res = TrackerResult(<<>>, FALSE)

\* the last query was get_peers from a sender with a valid id, for info-hash h
GotPeersQuery(h) ==
    /\ protocol.query.q = "get_peers" /\ protocol.query.target = h
    /\ is_valid_node_id(protocol.query.id)

\* C14: the reply to get_peers from a sender with a valid id has nodes and a
\* token of 16 bytes and no values when no peers are stored for the info-hash,
\* and values and a token of 16 bytes and no nodes when peers are stored
C14_GetPeersReply ==
    \A h \in Ids :
        GotPeersQuery(h) =>
            /\ protocol.reply.keys =
                  IF protocol.peer_storage[h] = {} THEN {"id", "token", "nodes"}
                  ELSE {"id", "token", "values"}
            /\ protocol.reply.token.len = TokenLen
            /\ protocol.peer_storage[h] # {} =>
                  protocol.reply.values = {e.peer : e \in protocol.peer_storage[h]}

\* C21: when call_find_node or call_get_peers returns for a node that did not
\* answer before the timeout, the node is removed from the routing table, and
\* when it returns for a node that answered, the node is in the routing table;
\* when the lookup handles the results of a round, the nodes of the round that
\* did not answer are dropped from its heap
C21_Step ==
    /\ \A n \in crawl'.returned \ crawl.returned :
          IF protocol.future[crawl.calls[n]].ok
          THEN n \in protocol'.router ELSE n \notin protocol'.router
    /\ (/\ crawl.pos = "gather" /\ crawl.returned = DOMAIN crawl.calls /\ crawl' # crawl
        /\ ~(crawl.kind = "peer" /\ dht.cancel_crawl) /\ crawl'.pos # "raised")
       => \A n \in DOMAIN crawl.calls :
            ~protocol.future[crawl.calls[n]].ok => n \notin crawl'.nearest

C21_TimedOutNodeDropped == [][C21_Step]_vars

\* a lookup whose heap holds every node it hears of goes on after a round in
\* which one node did not answer, and another did
C21_Witness ==
    /\ crawl.pos = "gather" /\ crawl.ksize >= NumNodes
    /\ \E n \in crawl.contacted \ crawl.nearest : n \notin protocol.router
    /\ \E m \in crawl.contacted \cap crawl.nearest : m \in protocol.router

\* C22: the datagram sent for a query whose handler returned a result is a dict
\* of y = r, the transaction id t of the query, and r = what the handler returned
C22_ReplyCarriesTransactionId ==
    (protocol.query.y = "q" /\ protocol.reply # NoReply) =>
        /\ protocol.sent.keys = {"y", "t", "r"}
        /\ protocol.sent.y = "r"
        /\ protocol.sent.t = protocol.query.t
        /\ protocol.sent.r = protocol.reply

\* C23: a datagram that does not decode, is not a dict, has no transaction id,
\* has a y that is neither q nor r, or is a query that names no handler, and a
\* response whose transaction id is not outstanding, are dropped: nothing is
\* sent, no call is resolved or forgotten, the routing table is as it was
C23_Step ==
    /\ \A d \in Ignored :
          protocol' = datagram_received(protocol, d) =>
              /\ protocol'.sent = NoDatagram
              /\ protocol'.outstanding = protocol.outstanding
              /\ protocol'.future = protocol.future
              /\ protocol'.router = protocol.router
    /\ (/\ protocol.handlers # <<>> /\ protocol'.handlers = Tail(protocol.handlers)
        /\ Head(protocol.handlers).t \notin protocol.outstanding)
       => /\ protocol'.sent = protocol.sent
          /\ protocol'.outstanding = protocol.outstanding
          /\ protocol'.future = protocol.future
          /\ protocol'.router = protocol.router

C23_MalformedDropped == [][C23_Step]_vars

\* a query for a method the node does not have was dropped while a call was
\* outstanding and the routing table held a node
C23_Witness ==
    /\ protocol.query.q = "vote" /\ protocol.outstanding # {} /\ protocol.router # {}
    /\ protocol.sent = NoDatagram

\* C24: a ping, find_node, get_peers or announce_peer query whose sender id is
\* not strictly between 0 and 2^160 adds nothing to the routing table, issues
\* no token, stores no peer, and is not replied to
C24_Step ==
    LET d == protocol'.query
    IN  (/\ d.y = "q" /\ d.t # 0
         /\ d.q \in {"ping", "find_node", "get_peers", "announce_peer"}
         /\ ~is_valid_node_id(d.id)
         /\ protocol' = datagram_received(protocol, d))
        => /\ protocol'.router = protocol.router
           /\ protocol'.token_storage = protocol.token_storage
           /\ protocol'.peer_storage = protocol.peer_storage
           /\ protocol'.reply = NoReply /\ protocol'.sent = NoDatagram

C24_InvalidSenderIgnored == [][C24_Step]_vars

\* an announce_peer from the id 2^160 was handled by a node that knows other
\* nodes and has issued a token
C24_Witness ==
    /\ protocol.query.q = "announce_peer" /\ protocol.query.t # 0
    /\ protocol.query.id = MAX_ID
    /\ protocol.router # {} /\ protocol.token_storage # {}
    /\ protocol.sent = NoDatagram /\ protocol.raised = ""

\* the token of the announce_peer d was issued to its sender for its id and
\* info-hash and is still stored
Issued(kr, d) ==
    [token |-> d.token, ip |-> Sender.ip, id |-> d.id, info_hash |-> d.target]
        \in kr.token_storage

\* C25: an announce_peer that carries a token issued by get_peers to the same
\* ip, id and info-hash stores the peer (the ip with the announced port, or
\* with the source port when implied_port is set) under the info-hash and is
\* replied to with {id}, and get_peers then returns the peer
C25_Step ==
    LET d == protocol'.query
        peer == IF d.implied_port THEN Sender.port ELSE d.port
    IN  (/\ d.q = "announce_peer" /\ d.t # 0
         /\ protocol' = datagram_received(protocol, d)
         /\ Issued(protocol, d))
        => /\ \E e \in protocol'.peer_storage[d.target] : e.peer = peer
           /\ protocol'.sent.r = [NoReply EXCEPT !.keys = {"id"}, !.id = d.id]
           /\ peer \in get_peers(protocol', d.target).peers

C25_AnnounceStoresPeer == [][C25_Step]_vars

\* C26: an announce_peer from a valid id whose token was not issued to the
\* same ip, id and info-hash, or is no longer stored, leaves the peer storage
\* as it was and is replied to with {id}
C26_Step ==
    LET d == protocol'.query
    IN  (/\ d.q = "announce_peer" /\ d.t # 0 /\ is_valid_node_id(d.id)
         /\ protocol' = datagram_received(protocol, d)
         /\ ~Issued(protocol, d))
        => /\ protocol'.peer_storage = protocol.peer_storage
           /\ protocol'.sent.r = [NoReply EXCEPT !.keys = {"id"}, !.id = d.id]

C26_BadTokenStillAnswered == [][C26_Step]_vars

\* the number of info-hashes the specification lets the peer storage hold,
\* 2000, scaled
MaxInfoHashes == 2

C27_Inv ==
    Cardinality({h \in Ids : protocol.peer_storage[h] # {}}) <= MaxInfoHashes

C27_Step ==
    LET d == protocol'.query
    IN  (/\ d.kind = "call" /\ d.q = "get_peers"
         /\ protocol'.peer_storage = cull(protocol).peer_storage)
        => \A p \in protocol'.reply.values :
              \E e \in protocol.peer_storage[d.target] :
                  e.peer = p /\ protocol.now - e.birthday < PeerTtl

\* C27: get_peers never returns a peer that was inserted a ttl or more ago,
\* and the peer storage never holds peers for more than MaxInfoHashes
\* info-hashes
C27_PeerStorageBounded == []C27_Inv /\ [][C27_Step]_vars

C28_Inv ==
    (tracker.kind = "udp" /\ tracker.state # "") =>
        /\ Len(tracker.sent) \in {1, 2}
        /\ tracker.sent[1].action = 0
        /\ Len(tracker.sent) = 2 =>
              /\ tracker.state = "announce"
              /\ tracker.sent[2].action = 1
              /\ tracker.sent[2].connection_id = tracker.connection_id
        /\ tracker.cb = "result" => tracker.state = "announce"

C28_Step ==
    /\ (tracker.pos = "endpoint" /\ tracker'.pos = "wait") =>
          Len(tracker'.sent) = 1 /\ tracker'.sent[1].action = 0
    /\ (tracker.pos # "endpoint" /\ tracker'.sent # tracker.sent) =>
          /\ tracker.state = "connect" /\ tracker'.datagram.len = "connect"
          /\ tracker'.sent = Append(tracker.sent,
                                    Request(1, tracker'.last_transaction_id,
                                            tracker'.datagram.connection_id))
    /\ (tracker.cb # "result" /\ tracker'.cb = "result") =>
          /\ tracker.state = "announce" /\ tracker'.datagram.len = "announce"
          /\ tracker'.cbval = tracker'.datagram.peers

\* C28: the UDP tracker client sends one connect request when its endpoint
\* opens and no other; it sends an announce only on receiving a datagram of
\* the size of a connect response while in the connect state, with the
\* connection id of that datagram, which it retains; it completes with a peer
\* list only from a datagram received in the announce state
C28_ConnectThenAnnounce == []C28_Inv /\ [][C28_Step]_vars

\* the task returned the peer of an announce response after the two requests
C28_Witness ==
    /\ tracker.kind = "udp" /\ tracker.pos = "done"
    /\ tracker.res = TrackerResult(<<1>>, FALSE)
    /\ Len(tracker.sent) = 2 /\ tracker.sent[2].connection_id = MaxConn

\* C29: a datagram whose transaction id is not the one of the request the
\* client sent last is dropped: the state does not advance, no connection id
\* is stored, nothing is sent, and the future is not completed
C29_Step ==
    (/\ tracker.kind = "udp" /\ tracker.state # ""
     /\ tracker'.datagram.len \in {"connect", "announce"}
     /\ tracker'.datagram.transaction_id # tracker.last_transaction_id
     /\ \E tx \in TxSet : tracker' = udp_handle_response(tracker, tracker'.datagram, tx))
    => /\ tracker'.state = tracker.state
       /\ tracker'.connection_id = tracker.connection_id
       /\ tracker'.sent = tracker.sent
       /\ tracker'.cb = tracker.cb

C29_WrongTransactionDropped == [][C29_Step]_vars

\* C30: a tracker task that meets its timeout, a DNS or connect failure, a
\* status other than 200 or a reply with a failure reason is done, and what
\* it returned is the result of no peers; it raised nothing
C30_FailuresGiveZeroPeers ==
    tracker.cause # "" => tracker.pos = "done" /\ tracker.res = ZeroPeers

\* an HTTP tracker task ended on a status other than 200 after a retry
C30_Witness ==
    /\ tracker.kind = "http" /\ tracker.cause = "status" /\ tracker.tries < HttpTries
    /\ tracker.pos = "done" /\ tracker.res = ZeroPeers

\* C31: a UDP tracker task cancelled while it waits for its result, or a peer
\* task cancelled after its connection was made, ends with its transport
\* closed and returns None; a cancelled task never holds peers or metadata
C31_Inv ==
    \A id \in DOMAIN task :
        (task[id].kind \in {"udp", "peer"} /\ task[id].cancel /\ Done(task[id]))
        => task[id].res.peers = <<>> /\ task[id].res.data = <<>>

C31_Step ==
    \A id \in DOMAIN task \cap DOMAIN task' :
        (/\ task[id].kind \in {"udp", "peer"} /\ task[id].pos \in {"wait", "fetching"}
         /\ SeesCancel(task[id]) /\ Done(task'[id]))
        => task'[id].proto.closed /\ task'[id].res = None

C31_CancelClosesAndDeliversNothing == []C31_Inv /\ [][C31_Step]_vars

\* the winner's return cancelled a tracker that was waiting and a peer that was
\* fetching; both have ended
C31_Witness ==
    /\ pc = "returned"
    /\ \E id \in DOMAIN task :
        /\ task[id].kind = "udp" /\ task[id].cancel /\ Done(task[id])
        /\ task[id].proto.closed /\ task[id].res = None
    /\ \E id \in DOMAIN task :
        /\ task[id].kind = "peer" /\ task[id].cancel /\ Done(task[id])
        /\ task[id].conn = "done" /\ task[id].proto.closed /\ task[id].res = None

\* C32: a peer task whose connection attempt fails or is not made within 7 s,
\* or whose cb is still pending 30 s after the connection was made, returns
\* None, with the transport closed in the last case; retrieve_torrent, handed
\* only such tasks by asyncio.wait, drops them, leaves the other tasks as they
\* are and waits again when any is left
C32_Ends ==
    \A id \in DOMAIN task \cap DOMAIN task' :
        (/\ task[id].kind = "peer" /\ ~SeesCancel(task[id])
         /\ ~Done(task[id]) /\ Done(task'[id]))
        => /\ task[id].pos = "connecting" => task'[id].res = None
           /\ (task[id].pos = "fetching" /\ task[id].proto.cb = "pending")
                => task'[id].res = None /\ task'[id].proto.closed

C32_CarriesOn ==
    LET done == {id \in tasks : Done(task[id])}
    IN  (/\ pc = "wait" /\ tasks' # tasks
         /\ \A id \in done : task[id].kind = "peer" /\ task[id].res = None)
        => /\ tasks' = tasks \ done
           /\ \A id \in tasks' : task'[id] = task[id]
           /\ tasks' # {} => pc' = "wait" /\ outcome' = outcome

C32_FailedPeerIsEmpty == [][C32_Ends /\ C32_CarriesOn]_vars

\* retrieve_torrent has dropped a peer task that returned None and waits for the
\* tasks that are left, one of them a peer task that met its 30 s timeout
C32_Witness ==
    /\ pc = "wait"
    /\ \E a, b \in Addrs :
        /\ hist.spawned[a] > 0 /\ PeerId(a, 1) \notin DOMAIN task
        /\ PeerId(b, 1) \in tasks
        /\ LET t == task[PeerId(b, 1)]
           IN  /\ Done(t) /\ ~t.cancel /\ t.res = None
               /\ t.proto.closed /\ t.proto.cb = "cancelled"

\* the reasons of the kills that answer a violation of the protocol: lines 66,
\* 70, 74, 84, 124 and 141 of peer.py
ProtocolViolations ==
    {"Peer does not support extended metadata", "Invalid handshake", "Invalid infohash",
     "Packet size too big", "Does not support actual torrent exchange",
     "Our request for data was denied, bailing"}

\* C33: a connection killed because the handshake lacks the extension bit or
\* carries another protocol string or info-hash, because the extension
\* handshake lacks ut_metadata, because a request was rejected or because a
\* frame is longer than MAX_PACKET_SIZE has its transport closed and cb
\* resolved to None; cb stays None from then on and the task returns None
C33_Inv ==
    \A id \in DOMAIN task :
        (task[id].kind = "peer" /\ task[id].proto.reason \in ProtocolViolations)
        => /\ task[id].proto.closed
           /\ task[id].proto.cb = "none" /\ task[id].proto.cbval = <<>>

C33_Step ==
    \A id \in DOMAIN task \cap DOMAIN task' :
        (task[id].kind = "peer" /\ task[id].proto.reason \in ProtocolViolations)
        => task'[id].proto.cb = "none" /\ task'[id].res = None

C33_ViolationClosesEmpty == []C33_Inv /\ [][C33_Step]_vars

\* an oversized frame killed the connection and the frame was handled after it
C33_Witness ==
    /\ task[ThePeer].proto.reason = "Packet size too big"
    /\ task[ThePeer].proto.late > 0
    /\ task[ThePeer].proto.closed /\ task[ThePeer].proto.cb = "none"

\* C34: a connection has sent a request for a metadata piece only after an
\* extension handshake with ut_metadata was handled; its i-th request is for
\* piece i - 1, whatever the peer sent; and the requests exceed the piece
\* messages handled by at most one
C34_RequestsInOrder ==
    \A id \in DOMAIN task :
        task[id].kind = "peer" =>
            LET p == task[id].proto
                r == p.requested
            IN  /\ r # <<>> => p.ut_metadata
                /\ \A i \in 1..Len(r) : r[i].piece = i - 1
                /\ Len(r) <= p.replies + 1

RECURSIVE InIndexOrder(_, _)
\* the pieces of torrent_data from index i on, concatenated by ascending index
InIndexOrder(td, i) ==
    IF i >= MaxSize THEN <<>>
    ELSE (IF \E j \in 1..Len(td) : td[j].piece = i
          THEN td[CHOOSE j \in 1..Len(td) : td[j].piece = i].data ELSE <<>>)
         \o InIndexOrder(td, i + 1)

\* C35: a connection hashes at most once, and only with the received pieces
\* adding up to metadata_size; a connection that finished has hashed; what it
\* hashed is the received pieces concatenated by ascending piece index, and what
\* cb holds is what was hashed
C35_HashesInIndexOrder ==
    \A id \in DOMAIN task :
        task[id].kind = "peer" =>
            LET p == task[id].proto
            IN  /\ Len(p.hashed) <= 1
                /\ (p.hashed # <<>> /\ p.late = 0) =>
                    /\ p.expected_torrent_size # -1
                    /\ TotalLen(p.torrent_data) >= p.expected_torrent_size
                    /\ p.hashed[1] = InIndexOrder(p.torrent_data, 0)
                /\ p.reason = "Finished" => p.hashed # <<>>
                /\ (p.cb = "bytes" /\ ~Done(task[id])) => p.cbval = p.hashed[1]

\* C37: cb.set_result is called at most once on a connection, and never on a
\* cb that was cancelled. Once done cb keeps its state, and its value for as
\* long as the task has not returned; a task that returns while cb holds
\* verified metadata and no cancellation is seen returns these bytes; a task
\* whose cb was resolved without metadata never returns any
C37_Inv ==
    \A id \in DOMAIN task :
        task[id].kind = "peer" =>
            /\ task[id].proto.resolved <= 1
            /\ task[id].proto.cb = "cancelled" => task[id].proto.resolved = 0
            /\ (task[id].proto.cb = "bytes" /\ ~Done(task[id]))
                => Sha1(task[id].proto.cbval) = InfoHash

C37_Step ==
    \A id \in DOMAIN task \cap DOMAIN task' :
        (task[id].kind = "peer" /\ CbDone(task[id].proto)) =>
            /\ task'[id].proto.cb = task[id].proto.cb
            /\ ~Done(task'[id]) => task'[id].proto.cbval = task[id].proto.cbval
            /\ (task[id].proto.cb = "bytes" /\ ~Done(task[id]) /\ Done(task'[id])
                    /\ ~SeesCancel(task[id]))
                => task'[id].res = BytesResult(task[id].proto.cbval)
            /\ task[id].proto.cb # "bytes" => task'[id].res.data = <<>>

C37_ResolvedOnce == []C37_Inv /\ [][C37_Step]_vars

\* the task returned the metadata its connection verified, and the connection
\* was lost afterwards
C37_Witness ==
    /\ Done(task[ThePeer]) /\ task[ThePeer].res = BytesResult(GoodInfo)
    /\ task[ThePeer].proto.cb = "bytes" /\ task[ThePeer].proto.closed

\* C38: on a connection whose transport was closed no frame is handed to
\* handle_action and no request is written
C38_NothingAfterKill ==
    \A id \in DOMAIN task :
        task[id].kind = "peer" =>
            /\ task[id].proto.late = 0
            /\ \A i \in 1..Len(task[id].proto.requested) :
                    ~task[id].proto.requested[i].closed

\* C36: every value chosen as the refresh target of a lonely bucket lies in
\* the bucket's range [lo, hi), is below MAX_ID and is encoded in 20 bytes
C36_RefreshIdInRange ==
    /\ \A i \in 1..Len(protocol.chosen) :
        LET c == protocol.chosen[i]
        IN  /\ protocol.buckets[c.bucket].range.lo <= c.rid
            /\ c.rid < protocol.buckets[c.bucket].range.hi
            /\ c.rid < MAX_ID
    /\ protocol.buckets # <<>> => protocol.raised # "OverflowError"

\* C40: every node of the routing table of a node that runs lookups has an id
\* with 0 < long_id < MAX_ID (the lookup names a node by its distance to the
\* target)
C40_RouterHoldsValidIds ==
    \A n \in protocol.router : is_valid_node_id(long_id(n))

\* C39: once a retrieve call has ended on its own cancellation, every task it
\* spawned is finished or has been asked to cancel, and no future of its
\* task_registry is pending
C39_ChildrenCancelled ==
    outcome.kind = "CancelledError" =>
        /\ \A id \in DOMAIN task : Done(task[id]) \/ task[id].cancel
        /\ \A f \in task_registry : FutureDone(task, dht, f)

====
